---- MODULE Spec2Model ----
(***************************************************************************)
(* A model of the multi-agent sequential workflow engine of agent_service: *)
(* the WorkflowState record, SequentialWorkflow.execute and the eight      *)
(* agents it drives, the agents' response parsers, and the architecture    *)
(* continuity resolver of ArchitectureAgent.                               *)
(*                                                                         *)
(* Python values are abstracted to what the code branches on.  A dict is a *)
(* function from its present keys to the shape of each value; the empty    *)
(* dict is the empty function.  A completion text is a sequence of tokens  *)
(* (braces, brackets, code fences, prose lines, "key": value members).     *)
(***************************************************************************)
EXTENDS Integers, Sequences, FiniteSets, TLC

VARIABLES
    \* --- one execution of SequentialWorkflow.execute ---
    pc,                  \* position of execute: [phase, k], k the step block it is in
    current_step,        \* WorkflowState.current_step
    completed_steps,     \* WorkflowState.completed_steps
    slots,               \* the eight output slots of the WorkflowState, by slot name
    wf_history,          \* WorkflowState.conversation_history of the execution
    active,              \* agents whose process() has been entered and has not returned
    calls,               \* log: the agents invoked so far, in order
    reply,               \* what the completion service did for the step in progress
    groq_failed,         \* log: steps during which the completion service raised
    failed_step,         \* the step whose block of execute raised, or "none"
    initial_state,       \* the identifying fields of the WorkflowState handed to execute
    \* --- one call of an agent's response parser ---
    p_agent,             \* the agent whose parser was called, "none" before the call
    p_text,              \* the completion text handed to the parser
    p_existing,          \* ArchitectureAgent._current_existing_architecture at the call
    p_out,               \* what the parser did: [raised, val]
    \* --- one call of the continuity resolver ---
    r_slot,              \* WorkflowState.architecture_design handed to the resolver
    r_history,           \* WorkflowState.conversation_history handed to the resolver
    r_out,               \* what the resolver did
    \* --- two requests inside the shared ArchitectureAgent.process ---
    a_given,             \* per request: the architectureUpdate object of its history at the call
    a_heap,              \* per request: that same object as it is now (objects are mutable)
    a_pc,                \* per request: where process() stands
    a_self,              \* self._current_existing_architecture: the request whose object it holds
    a_existing,          \* per request: the local existing_architecture (whose object it is)
    a_path,              \* per request: what the classifier and the design completion did
    a_out,               \* per request: the architecture_design process() returned
    \* --- one prompt sent to the completion service ---
    q_state,             \* the WorkflowState (and resolver result) the prompt is built from
    q_agent,             \* the agent that sent the prompt, "none" before
    q_prompt,            \* the prompt it sent, a sequence of lines
    \* --- one call of _compile_comprehensive_response ---
    g_state,             \* the eight agent outputs of the WorkflowState it is given
    g_out,               \* the aggregate it returns
    \* --- the query calls of the tasks sharing one GroqService ---
    lim_requests,        \* RateLimiter.requests, each entry as its age now - req_time
    lim_lock,            \* the task holding RateLimiter._lock, 0 when it is free
    qy_pc,               \* per task: where its query call stands
    qy_sleep,            \* per task: what is left of its asyncio.sleep inside acquire
    qy_log,              \* per task: the acquisitions and completion attempts of its call
    \* --- two runs of _analyze_system_complexity on the same inputs ---
    cl_existing,         \* the existing architecture handed to both runs
    cl_reply,            \* what the completion service does in both runs
    cl_seed,             \* per run: the string hash seed of the interpreter it runs in
    cl_pc,               \* per run: where the classifier stands
    cl_prompt,           \* per run: the analysis prompt it sent
    cl_out,              \* per run: what it did, [raised, val]
    \* --- one run of ResearchAgent.process after its parser ---
    rs_data,             \* the parsed research_data: its search_queries and external_sources
    rs_pc,               \* where process stands
    rs_searched,         \* log: the queries handed to the search service, in order
    rs_results,          \* search_results, the entries kept so far
    rs_out               \* what process returned: [success, external]

wfVars == <<pc, current_step, completed_steps, slots, wf_history, active, calls, reply,
            groq_failed, failed_step, initial_state>>
parseVars == <<p_agent, p_text, p_existing, p_out>>
resolveVars == <<r_slot, r_history, r_out>>
archVars == <<a_given, a_heap, a_pc, a_self, a_existing, a_path, a_out>>
promptVars == <<q_state, q_agent, q_prompt>>
compileVars == <<g_state, g_out>>
groqVars == <<lim_requests, lim_lock, qy_pc, qy_sleep, qy_log>>
classVars == <<cl_existing, cl_reply, cl_seed, cl_pc, cl_prompt, cl_out>>
researchVars == <<rs_data, rs_pc, rs_searched, rs_results, rs_out>>
moreVars == <<groqVars, classVars, researchVars>>
oldVars == <<wfVars, parseVars, resolveVars, archVars, promptVars, compileVars>>
groqRest == <<oldVars, classVars, researchVars>>
classRest == <<oldVars, groqVars, researchVars>>
researchRest == <<oldVars, groqVars, classVars>>

vars == <<wfVars, parseVars, resolveVars, archVars, promptVars, compileVars, moreVars>>

(***************************************************************************)
(* Bounds of the model.                                                    *)
(***************************************************************************)
MaxText == 4
MaxHist == 3

(***************************************************************************)
(* Values.  Shapes of the values a dict holds: "list0"/"map0" are the      *)
(* empty list and dict, "list1"/"map1"/"num"/"str"/"null" are values the   *)
(* model supplied (list1: a non-empty list of objects), "lit_*" are the     *)
(* non-empty literals written in the code, and "hist_*" are non-empty      *)
(* values that came with the caller's state or conversation history        *)
(* ("hist_list", "hist_list_b", "hist_list_c" are three different lists).  *)
(***************************************************************************)
EmptyDict == << >>

IsList(v) == v \in {"list0", "list1", "lit_list", "hist_list", "hist_list_b", "hist_list_c",
                   "agents_both", "agents_named"}
IsMap(v) == v \in {"map0", "map1", "lit_map", "hist_map"}
IsStr(v) == v \in {"str", "lit_str"}
IsNum(v) == v \in {"num", "lit_num"}
Truthy(v) == v \in {"list1", "lit_list", "hist_list", "hist_list_b", "hist_list_c",
                   "agents_both", "agents_named", "named_both", "workflow_name",
                   "map1", "lit_map", "hist_map", "str", "lit_str", "num", "lit_num"}
HasLen(v) == IsList(v) \/ IsMap(v) \/ IsStr(v) \/ v = "named_both"

Get(d, k, default) == IF k \in DOMAIN d THEN d[k] ELSE default
\* Stand-in for dict.setdefault that overwrites the key.
OverwriteMutant(d, k, v) == [x \in DOMAIN d \cup {k} |-> IF x = k THEN v ELSE d[x]]
SetDefault(d, k, v) == IF k \in DOMAIN d THEN d ELSE d @@ (k :> v)
Put(d, k, v) == (k :> v) @@ d
NonEmpty(d) == DOMAIN d # {}

RECURSIVE SetDefaults(_, _)
SetDefaults(d, kvs) ==
    IF kvs = << >> THEN d
    ELSE SetDefaults(SetDefault(d, Head(kvs)[1], Head(kvs)[2]), Tail(kvs))

DictOf(kvs) == SetDefaults(EmptyDict, kvs)

(***************************************************************************)
(* Completion texts.  A token is <<kind, key, shape>>; only a "kv" token   *)
(* (one  "key": value  member of an object) uses key and shape.            *)
(***************************************************************************)
LB == <<"{", "", "">>
RB == <<"}", "", "">>
LS == <<"[", "", "">>
RS == <<"]", "", "">>
FENCE == <<"fence_json", "", "">>   \* the opening of a fenced block tagged json
TICKS == <<"fence", "", "">>        \* a bare code fence
HEADING == <<"functional requirements:", "", "">>
BULLET == <<"- item", "", "">>
KV(k, shape) == <<"kv", k, shape>>

Has(text, tok) == \E i \in 1..Len(text) : text[i] = tok
Find(text, toks, from) ==
    IF \E i \in from..Len(text) : text[i] \in toks
    THEN CHOOSE i \in from..Len(text) :
             text[i] \in toks /\ \A j \in from..(i - 1) : text[j] \notin toks
    ELSE -1
RFind(text, tok) ==
    IF Has(text, tok)
    THEN CHOOSE i \in 1..Len(text) :
             text[i] = tok /\ \A j \in (i + 1)..Len(text) : text[j] # tok
    ELSE -1
\* The Python slice s[a:b] on 1-based inclusive-exclusive positions a..b-1.
Slice(text, a, b) == IF a >= b THEN << >> ELSE SubSeq(text, a, b - 1)

(***************************************************************************)
(* json.loads on a token sequence (white space and commas are not tokens): *)
(*   value ::= object | array      object ::= { kv* }     array ::= [ value* ]   *)
(* ValueEnd(s, i) is the position after the value that starts at i, or 0.  *)
(***************************************************************************)
RECURSIVE ValueEnd(_, _), ObjEnd(_, _), ArrEnd(_, _)
ValueEnd(s, i) ==
    IF i > Len(s) THEN 0
    ELSE IF s[i] = LB THEN ObjEnd(s, i + 1)
    ELSE IF s[i] = LS THEN ArrEnd(s, i + 1)
    ELSE 0
ObjEnd(s, i) ==
    IF i > Len(s) THEN 0
    ELSE IF s[i][1] = "kv" THEN ObjEnd(s, i + 1)
    ELSE IF s[i] = RB THEN i + 1
    ELSE 0
ArrEnd(s, i) ==
    IF i > Len(s) THEN 0
    ELSE IF s[i] = RS THEN i + 1
    ELSE LET e == ValueEnd(s, i) IN IF e = 0 THEN 0 ELSE ArrEnd(s, e)

IsJson(s) == ValueEnd(s, 1) = Len(s) + 1

\* The dict an object text denotes: a repeated key keeps its last value.
ObjOf(s) ==
    LET keys == {s[i][2] : i \in {j \in 1..Len(s) : s[j][1] = "kv"}}
        last(k) == CHOOSE i \in 1..Len(s) :
                       /\ s[i][1] = "kv" /\ s[i][2] = k
                       /\ \A j \in (i + 1)..Len(s) : ~(s[j][1] = "kv" /\ s[j][2] = k)
    IN [k \in keys |-> s[last(k)][3]]

\* [ok, kind, obj]: ok is FALSE when json.loads raises JSONDecodeError.
JsonLoads(s) ==
    IF ~IsJson(s) THEN [ok |-> FALSE, kind |-> "none", obj |-> EmptyDict]
    ELSE IF s[1] = LB THEN [ok |-> TRUE, kind |-> "obj", obj |-> ObjOf(s)]
    ELSE [ok |-> TRUE, kind |-> "list", obj |-> EmptyDict]

(***************************************************************************)
(* Extraction of the JSON span.  [ok, str]: ok is FALSE when the code      *)
(* raises ValueError("No JSON found in response").                         *)
(***************************************************************************)
\* s[:-1]: the slice that an unclosed fence leaves (find returns -1) loses its last
\* character, which is the whole token only when the token is one character long.
JUNK == <<"junk", "", "">>
DropLastChar(s) ==
    IF s = << >> THEN s
    ELSE IF s[Len(s)] \in {LB, RB, LS, RS} THEN SubSeq(s, 1, Len(s) - 1)
    ELSE Append(SubSeq(s, 1, Len(s) - 1), JUNK)

\* research_agent.py 168-177 and the same lines of the five later agents.
ExtractJsonStr(response) ==
    IF Has(response, FENCE)
    THEN LET json_start == Find(response, {FENCE}, 1) + 1
             json_end == Find(response, {FENCE, TICKS}, json_start)
         IN [ok |-> TRUE,
             str |-> IF json_end = -1
                     THEN DropLastChar(Slice(response, json_start, Len(response) + 1))
                     ELSE Slice(response, json_start, json_end)]
    ELSE IF Has(response, LB) /\ Has(response, RB)
    THEN [ok |-> TRUE,
          str |-> Slice(response, Find(response, {LB}, 1), RFind(response, RB) + 1)]
    ELSE [ok |-> FALSE, str |-> << >>]

\* re.search(r'\{.*\}', response, re.DOTALL): the first "{" to the last "}" after it.
RegexBraceSpan(response) ==
    LET first == Find(response, {LB}, 1)
        last == RFind(response, RB)
    IN IF first # -1 /\ last > first
       THEN [ok |-> TRUE, str |-> Slice(response, first, last + 1)]
       ELSE [ok |-> FALSE, str |-> << >>]

(***************************************************************************)
(* The agents, their output slots and their fixed structures.              *)
(***************************************************************************)
StepOrder == <<"orchestrator", "requirements", "research", "architecture",
               "why_reasoning", "business_impact", "educational", "documentation">>
Steps == {StepOrder[i] : i \in 1..Len(StepOrder)}

\* The WorkflowState field execute assigns after the step (and the key of the
\* agent's result it is read from).
SlotOf(step) ==
    CASE step = "orchestrator" -> "orchestrator_plan"
      [] step = "requirements" -> "requirements_analysis"
      [] step = "research" -> "research_data"
      [] step = "architecture" -> "architecture_design"
      [] step = "why_reasoning" -> "why_reasoning"
      [] step = "business_impact" -> "business_impact"
      [] step = "educational" -> "educational_content"
      [] step = "documentation" -> "documentation"
SlotNames == {SlotOf(s) : s \in Steps}

\* The keys each validator sets by setdefault, with the default it gives them.
Schema(agent) ==
    CASE agent = "orchestrator" ->
           << <<"workflow_type", "lit_str">>, <<"agents_required", "lit_list">>,
              <<"estimated_duration_minutes", "lit_num">>, <<"complexity_score", "lit_num">> >>
      [] agent = "requirements" ->
           << <<"functional_requirements", "list0">>, <<"non_functional_requirements", "list0">>,
              <<"business_requirements", "list0">>, <<"constraints", "list0">>,
              <<"risks", "list0">>, <<"clarification_questions", "list0">>,
              <<"priority_matrix", "map0">> >>
      [] agent = "research" ->
           << <<"architecture_patterns", "list0">>, <<"technology_recommendations", "list0">>,
              <<"best_practices", "list0">>, <<"case_studies", "list0">>,
              <<"search_queries", "list0">>, <<"confidence_score", "lit_num">> >>
      [] agent = "architecture" ->
           << <<"architecture_overview", "map0">>, <<"components", "list0">>,
              <<"connections", "list0">>, <<"system_overview", "map0">>,
              <<"data_architecture", "map0">>, <<"security_architecture", "map0">>,
              <<"deployment_architecture", "map0">>, <<"scalability_strategy", "map0">>,
              <<"monitoring_observability", "map0">>, <<"technology_stack", "map0">>,
              <<"implementation_phases", "list0">>, <<"risks_mitigations", "list0">>,
              <<"confidence_score", "lit_num">> >>
      [] agent = "why_reasoning" ->
           << <<"architectural_decisions", "list0">>, <<"pattern_explanations", "list0">>,
              <<"technology_justifications", "list0">>, <<"design_principles", "list0">>,
              <<"scalability_reasoning", "map0">>, <<"security_reasoning", "map0">>,
              <<"educational_insights", "list0">>, <<"implementation_guidance", "map0">>,
              <<"confidence_score", "lit_num">> >>
      [] agent = "business_impact" ->
           << <<"executive_summary", "map0">>, <<"financial_impact", "map0">>,
              <<"operational_impact", "map0">>, <<"strategic_impact", "map0">>,
              <<"risk_analysis", "map0">>, <<"timeline_impact", "map0">>,
              <<"scalability_business_impact", "map0">>, <<"stakeholder_impact", "list0">>,
              <<"success_metrics", "list0">>, <<"confidence_score", "lit_num">> >>
      [] agent = "educational" ->
           << <<"key_concepts", "list0">>, <<"pattern_explanations", "list0">>,
              <<"technology_deep_dives", "list0">>, <<"practical_exercises", "list0">>,
              <<"learning_progression", "map0">>, <<"real_world_applications", "list0">>,
              <<"troubleshooting_guide", "list0">>, <<"further_learning", "map0">>,
              <<"assessment_questions", "list0">>, <<"confidence_score", "lit_num">> >>
      [] agent = "documentation" ->
           << <<"document_metadata", "map0">>, <<"executive_summary", "map0">>,
              <<"sections", "list0">>, <<"technical_specifications", "map0">>,
              <<"implementation_guide", "map0">>, <<"operational_guide", "map0">>,
              <<"decision_log", "list0">>, <<"appendices", "map0">>,
              <<"confidence_score", "lit_num">> >>

\* The structure each agent returns when its parser fails (the _get_fallback_*
\* literal; for the orchestrator and requirements parsers the _get_default_* one).
Fallback(agent) ==
    CASE agent = "orchestrator" ->
           DictOf(<< <<"workflow_type", "lit_str">>, <<"agents_required", "lit_list">>,
                     <<"estimated_duration_minutes", "lit_num">>,
                     <<"complexity_score", "lit_num">>, <<"justification", "lit_str">> >>)
      [] agent = "requirements" ->
           DictOf(<< <<"functional_requirements", "lit_list">>,
                     <<"non_functional_requirements", "lit_list">>,
                     <<"business_requirements", "lit_list">>, <<"constraints", "lit_list">>,
                     <<"risks", "lit_list">>, <<"clarification_questions", "lit_list">>,
                     <<"priority_matrix", "map0">> >>)
      [] agent = "research" ->
           DictOf(<< <<"architecture_patterns", "lit_list">>,
                     <<"technology_recommendations", "lit_list">>,
                     <<"best_practices", "lit_list">>, <<"case_studies", "lit_list">>,
                     <<"search_queries", "lit_list">>, <<"confidence_score", "lit_num">> >>)
      [] agent = "architecture" ->
           DictOf(<< <<"architecture_overview", "lit_map">>, <<"components", "lit_list">>,
                     <<"connections", "lit_list">>, <<"system_overview", "lit_map">>,
                     <<"deployment_architecture", "lit_map">>,
                     <<"data_architecture", "lit_map">>, <<"security_architecture", "lit_map">>,
                     <<"technology_stack", "lit_map">>, <<"visualization_data", "lit_map">>,
                     <<"confidence_score", "lit_num">> >>)
      [] agent = "why_reasoning" ->
           DictOf(<< <<"architectural_decisions", "lit_list">>,
                     <<"pattern_explanations", "lit_list">>,
                     <<"technology_justifications", "lit_list">>,
                     <<"design_principles", "lit_list">>, <<"scalability_reasoning", "lit_map">>,
                     <<"security_reasoning", "lit_map">>, <<"educational_insights", "lit_list">>,
                     <<"implementation_guidance", "lit_map">>,
                     <<"decision_rationale", "lit_map">>, <<"confidence_score", "lit_num">> >>)
      [] agent = "business_impact" ->
           DictOf(<< <<"executive_summary", "lit_map">>, <<"financial_impact", "lit_map">>,
                     <<"operational_impact", "lit_map">>, <<"strategic_impact", "lit_map">>,
                     <<"risk_analysis", "lit_map">>, <<"timeline_impact", "lit_map">>,
                     <<"scalability_business_impact", "lit_map">>,
                     <<"stakeholder_impact", "lit_list">>, <<"success_metrics", "lit_list">>,
                     <<"roi_analysis", "lit_map">>, <<"confidence_score", "lit_num">> >>)
      [] agent = "educational" ->
           DictOf(<< <<"key_concepts", "lit_list">>, <<"pattern_explanations", "lit_list">>,
                     <<"technology_deep_dives", "lit_list">>,
                     <<"practical_exercises", "lit_list">>,
                     <<"learning_progression", "lit_map">>,
                     <<"real_world_applications", "lit_list">>,
                     <<"troubleshooting_guide", "lit_list">>, <<"further_learning", "lit_map">>,
                     <<"assessment_questions", "lit_list">>, <<"learning_path", "lit_map">>,
                     <<"confidence_score", "lit_num">> >>)
      [] agent = "documentation" ->
           DictOf(<< <<"document_metadata", "lit_map">>, <<"executive_summary", "lit_map">>,
                     <<"sections", "lit_list">>, <<"technical_specifications", "lit_map">>,
                     <<"implementation_guide", "lit_map">>, <<"operational_guide", "lit_map">>,
                     <<"decision_log", "lit_list">>, <<"appendices", "lit_map">>,
                     <<"export_formats", "lit_map">>, <<"confidence_score", "lit_num">> >>)

EmptyFallbackMutant(agent) == EmptyDict
\* The structure process() itself returns from its except branch.  It is the
\* parser's fallback, except for the first two agents, which keep a second literal.
ProcessFallback(agent) ==
    CASE agent = "orchestrator" ->
           DictOf(<< <<"workflow_type", "lit_str">>, <<"agents_required", "lit_list">>,
                     <<"estimated_duration_minutes", "lit_num">>,
                     <<"complexity_score", "lit_num">>, <<"justification", "lit_str">>,
                     <<"integration_requirements", "lit_map">> >>)
      [] agent = "requirements" ->
           DictOf(<< <<"functional_requirements", "lit_list">>,
                     <<"non_functional_requirements", "lit_list">>,
                     <<"business_requirements", "lit_list">>, <<"constraints", "lit_list">>,
                     <<"risks", "lit_list">>, <<"clarification_questions", "lit_list">>,
                     <<"priority_matrix", "lit_map">> >>)
      [] OTHER -> Fallback(agent)

(***************************************************************************)
(* The parsers.  A Try* operator is the body of the parser's try block:    *)
(* [ok, val], ok FALSE when a statement of the block raises.  Caught is    *)
(* the except branch around it: [raised, val].                             *)
(***************************************************************************)
Failed == [ok |-> FALSE, val |-> EmptyDict]
Done(d) == [ok |-> TRUE, val |-> d]

UncaughtMutant(try, fallback) ==
    IF try.ok THEN [raised |-> FALSE, val |-> try.val]
    ELSE [raised |-> TRUE, val |-> EmptyDict]
\* try: ... except Exception: return <fallback>
Caught(try, fallback) ==
    IF try.ok THEN [raised |-> FALSE, val |-> try.val]
    ELSE [raised |-> FALSE, val |-> fallback]

\* json.loads of the extracted span followed by the validator's setdefault calls,
\* which raise AttributeError on a value that is not a dict.
TryParseShared(agent, response) ==
    LET ex == ExtractJsonStr(response)
        j == JsonLoads(ex.str)
    IN IF ~ex.ok \/ ~j.ok \/ j.kind # "obj" THEN Failed
       ELSE Done(SetDefaults(j.obj, Schema(agent)))

ParseShared(agent, response) ==
    Caught(TryParseShared(agent, response), Fallback(agent))

\* --- requirements ---
ValidateRequirementsAnalysis(analysis) ==
    LET a == SetDefaults(analysis, Schema("requirements"))
        b == IF IsList(a["functional_requirements"]) THEN a
             ELSE Put(a, "functional_requirements", "list0")
    IN IF IsList(b["non_functional_requirements"]) THEN b
       ELSE Put(b, "non_functional_requirements", "list0")

\* The section a line of the text switches to ("" when it switches to none).
LineSection(tok) ==
    IF tok = HEADING THEN "functional"
    ELSE IF tok[1] = "kv" /\ tok[2] \in {"functional_requirements", "non_functional_requirements",
                                          "business_requirements"}
    THEN "functional"
    ELSE IF tok[1] = "kv" /\ tok[2] = "clarification_questions" THEN "questions"
    ELSE ""
\* Whether a bullet line follows a line that opened `section`, with no other
\* section opened in between.
BulletIn(text, section) ==
    \E i \in 1..Len(text) :
        /\ text[i] = BULLET
        /\ \E h \in 1..(i - 1) :
              /\ LineSection(text[h]) = section
              /\ \A j \in (h + 1)..(i - 1) : LineSection(text[j]) = ""
ExtractRequirementsFromText(response) ==
    DictOf(<< <<"functional_requirements",
                IF BulletIn(response, "functional") THEN "list1" ELSE "list0">>,
              <<"non_functional_requirements", "list0">>,
              <<"business_requirements", "list0">>,
              <<"constraints", "list0">>, <<"risks", "list0">>,
              <<"clarification_questions",
                IF BulletIn(response, "questions") THEN "list1" ELSE "list0">>,
              <<"priority_matrix", "map0">> >>)

TryParseRequirements(response) ==
    LET m == RegexBraceSpan(response)
        j == JsonLoads(m.str)
    IN IF ~m.ok THEN Done(ExtractRequirementsFromText(response))
       ELSE IF ~j.ok THEN Failed
       ELSE Done(ValidateRequirementsAnalysis(j.obj))

ParseRequirementsResponse(response) ==
    Caught(TryParseRequirements(response), Fallback("requirements"))

\* --- orchestrator ---
\* The shapes of agents_required: "lit_list" is a fixed list of the code (each of
\* them names why_reasoning and business_impact), "agents_both" a list that names
\* both, "agents_named" the list of the agents whose keywords a text holds, none
\* of them being one of the two, and "named_both" a string or a dict in which `in`
\* finds both names.
NamesBoth(v) == v \in {"lit_list", "agents_both", "named_both"}

\* [ok, val]: the membership tests raise on a value that is no container, and
\* append raises on one that is no list.  A workflow_type of shape
\* "workflow_name" is one of the four valid names.
ValidateOrchestrationPlan(plan) ==
    LET a == SetDefaults(plan, Schema("orchestrator"))
        b == IF IsList(a["agents_required"]) /\ ~NamesBoth(a["agents_required"])
             THEN Put(a, "agents_required", "agents_both") ELSE a
    IN IF ~IsList(a["agents_required"]) /\ ~NamesBoth(a["agents_required"]) THEN Failed
       ELSE IF b["workflow_type"] \notin {"lit_str", "workflow_name"}
       THEN Done(Put(b, "workflow_type", "lit_str"))
       ELSE Done(b)

\* A line that holds one of the agent keywords ("requirement" in both cases).
HasAgentKeyword(tok) ==
    tok = HEADING \/ (tok[1] = "kv" /\ tok[2] = "functional_requirements")

\* The plan built from the keywords of a text: the agents whose keywords occur,
\* or the fixed minimum list when none occurs.
ExtractPlanFromText(response) ==
    DictOf(<< <<"workflow_type", "lit_str">>,
              <<"agents_required",
                IF \E i \in 1..Len(response) : HasAgentKeyword(response[i])
                THEN "agents_named" ELSE "lit_list">>,
              <<"estimated_duration_minutes", "lit_num">>, <<"complexity_score", "lit_num">>,
              <<"justification", "lit_str">> >>)
TryParseOrchestration(response) ==
    LET m == RegexBraceSpan(response)
        j == JsonLoads(m.str)
    IN IF ~m.ok THEN Done(ExtractPlanFromText(response))
       ELSE IF ~j.ok THEN Failed
       ELSE ValidateOrchestrationPlan(j.obj)

ParseOrchestrationResponse(response) ==
    Caught(TryParseOrchestration(response), Fallback("orchestrator"))

\* --- architecture ---
\* Whether "for x in v: if key not in x: x[key] = ..." runs through: v is a list
\* (of objects) or an empty container.
Iterable(v) == IsList(v) \/ v = "map0"

\* [ok, val]; `existing` is self._current_existing_architecture (EmptyDict when the
\* attribute is unset or empty).
ValidateArchitectureDesign(design, existing) ==
    LET a == SetDefaults(design, Schema("architecture"))
        b == IF Truthy(a["components"]) THEN a
             ELSE IF NonEmpty(existing)
             THEN Put(Put(a, "components", Get(existing, "components", "list0")),
                      "connections", Get(existing, "connections", "list0"))
             ELSE Put(Put(a, "components", Fallback("architecture")["components"]),
                      "connections", Fallback("architecture")["connections"])
    IN IF Iterable(b["components"]) /\ Iterable(b["connections"]) THEN Done(b) ELSE Failed

TryParseArchitecture(response, existing) ==
    LET ex == ExtractJsonStr(response)
        j == JsonLoads(ex.str)
    IN IF ~ex.ok \/ ~j.ok \/ j.kind # "obj" THEN Failed
       ELSE ValidateArchitectureDesign(j.obj, existing)

ParseArchitectureResponse(response, existing) ==
    Caught(TryParseArchitecture(response, existing),
           IF NonEmpty(existing) THEN existing ELSE Fallback("architecture"))

\* The response parser of each agent.
Parse(agent, response, existing) ==
    CASE agent = "orchestrator" -> ParseOrchestrationResponse(response)
      [] agent = "requirements" -> ParseRequirementsResponse(response)
      [] agent = "architecture" -> ParseArchitectureResponse(response, existing)
      [] OTHER -> ParseShared(agent, response)

(***************************************************************************)
(* Specification SpecParse: one parser applied to one completion text.     *)
(***************************************************************************)
Alphabet == {LB, RB, LS, RS, FENCE, TICKS, HEADING, BULLET, KV("clarification_questions", "list1")}

\* Members a completion may supply in its object, and the objects of up to two of
\* them, bare and inside a fenced block.
SuppliedMembers ==
    {KV("clarification_questions", "list1"), KV("functional_requirements", "str"),
     KV("components", "list0"), KV("confidence_score", "num"),
     KV("agents_required", "list0"), KV("agents_required", "list1"),
     KV("agents_required", "named_both"), KV("agents_required", "num"),
     KV("workflow_type", "workflow_name"), KV("workflow_type", "str")}
ObjectTexts ==
    LET members == UNION {[1..n -> SuppliedMembers] : n \in 0..2}
    IN {<<LB>> \o m \o <<RB>> : m \in members}
       \cup {<<FENCE, LB>> \o m \o <<RB, TICKS>> : m \in members}

Texts == UNION {[1..n -> Alphabet] : n \in 0..MaxText} \cup ObjectTexts

\* An architecture found before the parse, as the resolver hands it over.
ExistingArch == DictOf(<< <<"components", "hist_list">>, <<"connections", "hist_list">> >>)
\* A non-empty architecture_design slot without components, which the resolver
\* hands over as it is.
ExistingOverviewOnly == DictOf(<< <<"architecture_overview", "hist_map">> >>)
ExistingChoices(agent) ==
    IF agent = "architecture" THEN {EmptyDict, ExistingArch, ExistingOverviewOnly} ELSE {EmptyDict}

IdleWorkflow ==
    /\ pc = [phase |-> "idle", k |-> 0]
    /\ current_step = "orchestrator" /\ completed_steps = << >>
    /\ slots = [n \in SlotNames |-> EmptyDict] /\ wf_history = << >>
    /\ active = {} /\ calls = << >> /\ reply = [kind |-> "none", text |-> << >>]
    /\ groq_failed = {}
    /\ failed_step = "none"
    /\ initial_state = << >>
IdleParse ==
    /\ p_agent = "idle" /\ p_text = << >> /\ p_existing = EmptyDict
    /\ p_out = [raised |-> FALSE, val |-> EmptyDict]
IdleResolve ==
    /\ r_slot = EmptyDict /\ r_history = << >>
    /\ r_out = [mode |-> "idle", existing |-> EmptyDict]
IdleArch ==
    /\ a_given = << >> /\ a_heap = << >> /\ a_pc = << >> /\ a_self = 0
    /\ a_existing = << >> /\ a_path = << >> /\ a_out = << >>
IdleGroq ==
    /\ lim_requests = << >> /\ lim_lock = 0
    /\ qy_pc = << >> /\ qy_sleep = << >> /\ qy_log = << >>
IdleClassify ==
    /\ cl_existing = << >> /\ cl_reply = << >> /\ cl_seed = << >>
    /\ cl_pc = << >> /\ cl_prompt = << >> /\ cl_out = << >>
IdleResearch ==
    /\ rs_data = << >> /\ rs_pc = "idle" /\ rs_searched = << >>
    /\ rs_results = << >> /\ rs_out = << >>
IdleMore == IdleGroq /\ IdleClassify /\ IdleResearch
IdleCompile == g_state = << >> /\ g_out = << >>
IdlePrompt == q_state = << >> /\ q_agent = [name |-> "idle", call |-> "none"] /\ q_prompt = << >>
IdleOld == IdleWorkflow /\ IdleParse /\ IdleResolve /\ IdleArch /\ IdlePrompt /\ IdleCompile

InitParse ==
    /\ p_agent = "none" /\ p_text \in Texts /\ p_existing = EmptyDict
    /\ p_out = [raised |-> FALSE, val |-> EmptyDict]
    /\ IdleWorkflow /\ IdleResolve /\ IdleArch /\ IdlePrompt /\ IdleCompile /\ IdleMore

ParseCall(agent, existing) ==
    /\ p_agent = "none"
    /\ p_agent' = agent
    /\ p_existing' = existing
    /\ p_out' = Parse(agent, p_text, existing)
    /\ UNCHANGED <<p_text, wfVars, resolveVars, archVars, promptVars, compileVars, moreVars>>

NextParse == \E agent \in Steps : \E existing \in ExistingChoices(agent) :
                 ParseCall(agent, existing)

SpecParse == InitParse /\ [][NextParse]_vars

(***************************************************************************)
(* Properties of the parsers (under SpecParse).                            *)
(***************************************************************************)
SharedContractAgents == Steps \ {"orchestrator"}
SchemaKeys(agent) == {Schema(agent)[i][1] : i \in 1..Len(Schema(agent))}

\* The text contains a well-formed JSON object somewhere.
ContainsObject(text) ==
    \E i \in 1..Len(text) : \E j \in i..Len(text) :
        text[i] = LB /\ IsJson(SubSeq(text, i, j))
\* The whole text is JSON whose top-level value is a list.
TopLevelList(text) == text # << >> /\ text[1] = LS /\ IsJson(text)
\* Malformed: no braces at all, truncated or otherwise invalid JSON (no object
\* can be read anywhere in the text), or JSON whose top-level value is not an object.
Malformed(text) == ~ContainsObject(text) \/ TopLevelList(text)
ParsedMalformed ==
    /\ p_agent \in SharedContractAgents
    /\ p_existing = EmptyDict
    /\ Malformed(p_text)

\* The seven-key structure the Requirements parser builds from the lines of a text.
BuiltFromText(val, text) ==
    /\ DOMAIN val = SchemaKeys("requirements")
    /\ \A k \in {"non_functional_requirements", "business_requirements", "constraints", "risks"} :
           val[k] = "list0"
    /\ val["priority_matrix"] = "map0"
    /\ \A k \in {"functional_requirements", "clarification_questions"} :
           /\ val[k] \in {"list0", "list1"}
           /\ val[k] = "list1" => Has(text, BULLET)
BraceThenBrace(text) ==
    \E i \in 1..Len(text) : \E j \in (i + 1)..Len(text) : text[i] = LB /\ text[j] = RB

Msg(type, meta, arch) == [messageType |-> type, metadata |-> meta, architectureUpdate |-> arch]

ArchA == DictOf(<< <<"components", "hist_list">>, <<"connections", "hist_list">> >>)
ArchB == DictOf(<< <<"components", "hist_list_b">>, <<"connections", "list0">> >>)
ArchNoComponents == DictOf(<< <<"connections", "hist_list">> >>)
ArchEmptyComponents == DictOf(<< <<"components", "list0">>, <<"connections", "list0">> >>)

\* [raised, arch]: the reverse scan of lines 328-339 from message i down to the first.
RECURSIVE ScanHistory(_, _)
ScanHistory(history, i) ==
    IF i = 0 THEN [raised |-> FALSE, arch |-> EmptyDict]
    ELSE LET msg == history[i]
             architecture_update ==
                 IF msg.metadata = "au" THEN msg.architectureUpdate ELSE EmptyDict
         IN IF msg.messageType # "ARCHITECTURE_UPDATE" THEN ScanHistory(history, i - 1)
            ELSE IF msg.metadata \in {"null", "ar_null"}
            THEN [raised |-> TRUE, arch |-> EmptyDict]    \* None has no attribute get
            ELSE IF NonEmpty(architecture_update)
                    /\ Truthy(Get(architecture_update, "components", "null"))
            THEN [raised |-> FALSE, arch |-> architecture_update]
            ELSE ScanHistory(history, i - 1)

\* [raised, arch]; the slot branch evaluates len() of the slot's components for its
\* log line, which raises on a value without a length.
ExtractExistingArchitecture(slot, history) ==
    IF NonEmpty(slot)
    THEN IF HasLen(Get(slot, "components", "list0"))
         THEN [raised |-> FALSE, arch |-> slot]
         ELSE [raised |-> TRUE, arch |-> EmptyDict]
    ELSE IF history # << >> THEN ScanHistory(history, Len(history))
    ELSE [raised |-> FALSE, arch |-> EmptyDict]

\* is_enhancement = existing_architecture and existing_architecture.get('components')
IsEnhancement(existing) == NonEmpty(existing) /\ Truthy(Get(existing, "components", "null"))

(***************************************************************************)
(* Specification SpecResolve: the resolver applied to one state.           *)
(***************************************************************************)
Messages ==
    {Msg("ARCHITECTURE_UPDATE", "au", a) : a \in {ArchA, ArchB, ArchNoComponents,
                                                   ArchEmptyComponents}}
    \cup {Msg("ARCHITECTURE_UPDATE", m, EmptyDict) : m \in {"absent", "null", "ar_null", "au_null"}}
    \cup {Msg("TEXT", "au", ArchA), Msg("TEXT", "null", EmptyDict), Msg("TEXT", "absent", EmptyDict),
          Msg("absent", "absent", EmptyDict)}
Histories == UNION {[1..n -> Messages] : n \in 0..MaxHist}

SlotChoices ==
    {EmptyDict,
     DictOf(<< <<"components", "hist_list_c">>, <<"connections", "hist_list_c">> >>),
     DictOf(<< <<"architecture_overview", "hist_map">> >>),
     DictOf(<< <<"components", "list0">>, <<"connections", "list0">> >>),
     DictOf(<< <<"components", "null">> >>)}

InitResolve ==
    /\ r_slot \in SlotChoices /\ r_history \in Histories
    /\ r_out = [mode |-> "pending", existing |-> EmptyDict]
    /\ IdleWorkflow /\ IdleParse /\ IdleArch /\ IdlePrompt /\ IdleCompile /\ IdleMore

\* existing_architecture = self._extract_existing_architecture(state); an exception
\* leaves the try block of process, so no mode is ever determined.
ResolveExisting ==
    /\ r_out.mode = "pending"
    /\ LET res == ExtractExistingArchitecture(r_slot, r_history)
       IN r_out' = IF res.raised THEN [mode |-> "raised", existing |-> EmptyDict]
                   ELSE [mode |-> "extracted", existing |-> res.arch]
    /\ UNCHANGED <<r_slot, r_history, wfVars, parseVars, archVars, promptVars, compileVars, moreVars>>

\* The is-enhancement test at the head of _build_architecture_prompt_with_analysis.
DetermineMode ==
    /\ r_out.mode = "extracted"
    /\ r_out' = [r_out EXCEPT !.mode = IF IsEnhancement(r_out.existing) THEN "ENHANCE" ELSE "NEW"]
    /\ UNCHANGED <<r_slot, r_history, wfVars, parseVars, archVars, promptVars, compileVars, moreVars>>

NextResolve == ResolveExisting \/ DetermineMode

SpecResolve == InitResolve /\ [][NextResolve]_vars

(***************************************************************************)
(* Properties of the resolver (under SpecResolve).                         *)
(***************************************************************************)
Resolved == r_out.mode \in {"ENHANCE", "NEW", "raised"}
Reported == r_out.mode \in {"ENHANCE", "NEW"}

\* Message i is an ARCHITECTURE_UPDATE that carries a non-empty component list at
\* metadata.agentResponse.architectureUpdate.
CarriesComponents(history, i) ==
    /\ history[i].messageType = "ARCHITECTURE_UPDATE"
    /\ history[i].metadata = "au"
    /\ Get(history[i].architectureUpdate, "components", "list0")
           \in {"hist_list", "hist_list_b", "hist_list_c"}
SlotHasComponents(slot) ==
    Get(slot, "components", "list0") \in {"hist_list", "hist_list_b", "hist_list_c"}
IsArchitectureUpdate(history, i) == history[i].messageType = "ARCHITECTURE_UPDATE"

\* C8: the resolver reports ENHANCE exactly when the architecture_design slot holds
\* a non-empty component list or, failing that, some ARCHITECTURE_UPDATE message of
\* the history carries one; a non-empty slot without components does not keep the
\* history from being scanned.
C8_EnhanceExactlyWhenFound ==
    Reported =>
        (r_out.mode = "ENHANCE" <=>
            \/ SlotHasComponents(r_slot)
            \/ \E i \in 1..Len(r_history) : CarriesComponents(r_history, i))

\* C9: with an empty slot and several ARCHITECTURE_UPDATE messages, the resolver
\* selects the architecture of the most recent message whose component list is
\* non-empty: more recent ARCHITECTURE_UPDATE messages without one are skipped and
\* older ones are ignored.
C9_MostRecentWithComponents ==
    (/\ Resolved
     /\ r_slot = EmptyDict
     /\ Cardinality({i \in 1..Len(r_history) : IsArchitectureUpdate(r_history, i)}) >= 2
     /\ \E i \in 1..Len(r_history) : CarriesComponents(r_history, i))
    => LET last == CHOOSE i \in 1..Len(r_history) :
                       /\ CarriesComponents(r_history, i)
                       /\ \A j \in (i + 1)..Len(r_history) : ~CarriesComponents(r_history, j)
       IN r_out.mode = "ENHANCE" /\ r_out.existing = r_history[last].architectureUpdate

\* C10: with an empty slot and exactly one ARCHITECTURE_UPDATE message that carries
\* at least one component, wherever it stands and whatever the other messages are,
\* the resolver reports ENHANCE and returns that message's component and
\* connection lists.
C10_SingleArchitectureSurfaced ==
    (/\ Resolved
     /\ r_slot = EmptyDict
     /\ Cardinality({i \in 1..Len(r_history) : CarriesComponents(r_history, i)}) = 1)
    => LET only == CHOOSE i \in 1..Len(r_history) : CarriesComponents(r_history, i)
       IN /\ r_out.mode = "ENHANCE"
          /\ Get(r_out.existing, "components", "list0")
                 = r_history[only].architectureUpdate["components"]
          /\ Get(r_out.existing, "connections", "list0")
                 = Get(r_history[only].architectureUpdate, "connections", "list0")

(***************************************************************************)
(* The agents' process() and SequentialWorkflow.execute.                   *)
(***************************************************************************)
\* The agent execute awaits in its k-th step block, and the name it assigns to
\* current_step at the end of that block.
\* Stand-in for the step table that leaves out research when the plan does not
\* name it.
PlannedAgentsMutant(k) ==
    IF Get(slots["orchestrator_plan"], "agents_required", "lit_list") = "agents_named" /\ k >= 3
    THEN StepOrder[IF k < Len(StepOrder) THEN k + 1 ELSE k]
    ELSE StepOrder[k]
AgentAtSwappedMutant(k) == StepOrder[IF k = 3 THEN 4 ELSE IF k = 4 THEN 3 ELSE k]
AgentAt(k) == StepOrder[k]
StuckStepNameMutant(k) == StepOrder[k]
NextStepName(k) == IF k < Len(StepOrder) THEN StepOrder[k + 1] ELSE "completed"

\* The statements of process() between the parser and the return: the key the
\* agent adds to the parsed structure and the len() of its log line.  [ok, val].
PostProcess(agent, val) ==
    CASE agent = "orchestrator" ->
           IF HasLen(Get(val, "agents_required", "list0")) THEN Done(val) ELSE Failed
      [] agent = "requirements" ->
           IF HasLen(Get(val, "functional_requirements", "list0"))
              /\ HasLen(Get(val, "non_functional_requirements", "list0"))
           THEN Done(val) ELSE Failed
      [] agent = "research" ->
           LET q == Get(val, "search_queries", "list0")
               searched == IF Truthy(q) THEN Put(val, "external_sources", "lit_list") ELSE val
           IN IF (Truthy(q) /\ ~IsList(q)) \/ ~HasLen(Get(val, "architecture_patterns", "list0"))
              THEN Failed ELSE Done(searched)
      [] agent = "architecture" ->
           IF HasLen(Get(val, "components", "list0"))
           THEN Done(Put(val, "visualization_data", "lit_map")) ELSE Failed
      [] agent = "why_reasoning" ->
           IF HasLen(Get(val, "architectural_decisions", "list0"))
           THEN Done(Put(val, "decision_rationale", "lit_map")) ELSE Failed
      [] agent = "business_impact" ->
           IF HasLen(Get(val, "impact_areas", "list0"))
           THEN Done(Put(val, "roi_analysis", "lit_map")) ELSE Failed
      [] agent = "educational" ->
           IF HasLen(Get(val, "key_concepts", "list0"))
           THEN Done(Put(val, "learning_path", "lit_map")) ELSE Failed
      [] agent = "documentation" ->
           IF HasLen(Get(val, "sections", "list0"))
           THEN Done(Put(val, "export_formats", "lit_map")) ELSE Failed

ProcessReraiseMutant(agent) == [raised |-> TRUE, val |-> EmptyDict]
\* except Exception as e: ... return {<slot>: <fallback>}
ProcessExcept(agent) == [raised |-> FALSE, val |-> ProcessFallback(agent)]

\* What process() hands back to execute, [raised, val], given what the completion
\* service did (rep) and what the resolver found (found, used by the architecture
\* agent only).
Process(agent, rep, found) ==
    IF rep.kind # "text" \/ found.raised THEN ProcessExcept(agent)
    ELSE LET parsed == Parse(agent, rep.text, found.arch)
             post == PostProcess(agent, parsed.val)
         IN IF parsed.raised \/ ~post.ok THEN ProcessExcept(agent)
            ELSE [raised |-> FALSE, val |-> post.val]

\* Whether the step_results[...] expression of the step block raises on the slot
\* execute has just written: len() of a value without length, .get of a non-dict.
StepResultsRaises(step, slot) ==
    LET NoLen(k) == ~HasLen(Get(slot, k, "list0"))
        NoGet(k) == ~IsMap(Get(slot, k, "map0"))
    IN CASE step = "orchestrator" -> FALSE
         [] step = "requirements" ->
              NoLen("functional_requirements") \/ NoLen("non_functional_requirements")
              \/ NoLen("clarification_questions")
         [] step = "research" ->
              NoLen("architectural_patterns") \/ NoLen("technology_recommendations")
              \/ NoLen("market_analysis")
         [] step = "architecture" ->
              NoLen("components") \/ NoLen("connections") \/ NoGet("architecture_overview")
         [] step = "why_reasoning" ->
              NoLen("architectural_decisions") \/ NoLen("trade_offs") \/ NoLen("alternatives")
         [] step = "business_impact" -> NoGet("executive_summary")
         [] step = "educational" ->
              NoLen("key_concepts") \/ NoLen("learning_path") \/ NoLen("assessment_questions")
         [] step = "documentation" -> NoLen("sections")

\* _calculate_overall_confidence: sum() over the confidence_score of every slot that
\* has one raises TypeError when one of them is not a number.
CompileRaises(s) ==
    \E n \in SlotNames : "confidence_score" \in DOMAIN s[n] /\ ~IsNum(s[n]["confidence_score"])

(***************************************************************************)
(* Specification Spec: one execution of SequentialWorkflow.execute.        *)
(***************************************************************************)
\* The key of each step whose value execute reads without checking its type.
UncheckedKey(step) ==
    CASE step = "orchestrator" -> KV("confidence_score", "str")
      [] step = "requirements" -> KV("clarification_questions", "num")
      [] step = "research" -> KV("technology_recommendations", "num")
      [] step = "architecture" -> KV("architecture_overview", "list1")
      [] step = "why_reasoning" -> KV("trade_offs", "num")
      [] step = "business_impact" -> KV("executive_summary", "list1")
      [] step = "educational" -> KV("assessment_questions", "num")
      [] step = "documentation" -> KV("confidence_score", "str")

\* The texts the completion service may return to a step: prose without JSON, a
\* truncated object, an empty object, an object with a value of an unexpected
\* type, for the architecture step an object with components and, for the
\* orchestrator, prose that holds an agent keyword.
Responses(step) ==
    {<<BULLET>>, <<LB, UncheckedKey(step)>>, <<LB, RB>>, <<LB, UncheckedKey(step), RB>>}
    \cup (IF step = "architecture" THEN {<<LB, KV("components", "list1"), RB>>} ELSE {})
    \cup (IF step = "orchestrator" THEN {<<HEADING>>} ELSE {})

WfHistories ==
    {<< >>,
     <<Msg("ARCHITECTURE_UPDATE", "au", ArchA)>>,
     <<Msg("ARCHITECTURE_UPDATE", "au", ArchA), Msg("ARCHITECTURE_UPDATE", "null", EmptyDict)>>}

NoReply == [kind |-> "none", text |-> << >>]

\* The states execute may be handed: conversation_id and user_query are strings
\* (possibly empty), user_profile is a UserProfile object or None.
InitialStates ==
    [conversation_id : {"", "conv-1"}, user_query : {"", "design a shop"},
     user_profile : {"None", "UserProfile"}]

\* Stand-in for validate_state that accepts every state.
AlwaysValidMutant(state) == TRUE

\* validate_state: every required field is present and truthy.
ValidateState(state) ==
    \A field \in {"conversation_id", "user_query", "user_profile"} :
        field \in DOMAIN state /\ state[field] \notin {"", "None"}

Init ==
    /\ pc = [phase |-> "entry", k |-> 0]
    /\ initial_state \in InitialStates
    /\ current_step = "orchestrator" /\ completed_steps = << >>
    /\ slots = [n \in SlotNames |-> EmptyDict]
    /\ wf_history \in WfHistories
    /\ active = {} /\ calls = << >> /\ reply = NoReply
    /\ groq_failed = {} /\ failed_step = "none"
    /\ IdleParse /\ IdleResolve /\ IdleArch /\ IdlePrompt /\ IdleCompile /\ IdleMore

\* if not self.validate_state(initial_state): raise ValueError(...), before the try
\* block of execute and before the first agent.
Enter ==
    /\ pc.phase = "entry"
    /\ pc' = IF ValidateState(initial_state)
             THEN [phase |-> "ready", k |-> 1]
             ELSE [phase |-> "rejected", k |-> 0]
    /\ UNCHANGED <<current_step, completed_steps, slots, wf_history, active, calls, reply,
                   groq_failed, failed_step, initial_state,
                   parseVars, resolveVars, archVars, promptVars, compileVars, moreVars>>

\* What the resolver finds for the step in progress (the architecture agent calls it
\* before its first completion request; the other agents do not call it).
Found(step) ==
    IF step = "architecture"
    THEN ExtractExistingArchitecture(slots["architecture_design"], wf_history)
    ELSE [raised |-> FALSE, arch |-> EmptyDict]

\* result = await self.agents[...].process(state): process runs up to its
\* completion request.
Invoke(k) ==
    /\ pc = [phase |-> "ready", k |-> k]
    /\ active' = active \cup {AgentAt(k)}
    /\ calls' = Append(calls, AgentAt(k))
    /\ IF Found(AgentAt(k)).raised
       THEN pc' = [pc EXCEPT !.phase = "replied"] /\ reply' = [kind |-> "unasked", text |-> << >>]
       ELSE pc' = [pc EXCEPT !.phase = "await"] /\ reply' = NoReply
    /\ UNCHANGED <<current_step, completed_steps, slots, wf_history, groq_failed, failed_step,
                   initial_state,
                   parseVars, resolveVars, archVars, promptVars, compileVars, moreVars>>

\* The completion service returns a text.
GroqReturns(text) ==
    /\ pc.phase = "await"
    /\ text \in Responses(AgentAt(pc.k))
    /\ reply' = [kind |-> "text", text |-> text]
    /\ pc' = [pc EXCEPT !.phase = "replied"]
    /\ UNCHANGED <<current_step, completed_steps, slots, wf_history, active, calls,
                   groq_failed, failed_step, initial_state,
                   parseVars, resolveVars, archVars, promptVars, compileVars, moreVars>>

\* The completion service raises (its retries are exhausted).
GroqRaises ==
    /\ pc.phase = "await"
    /\ reply' = [kind |-> "raise", text |-> << >>]
    /\ groq_failed' = groq_failed \cup {AgentAt(pc.k)}
    /\ pc' = [pc EXCEPT !.phase = "replied"]
    /\ UNCHANGED <<current_step, completed_steps, slots, wf_history, active, calls,
                   failed_step, initial_state,
                   parseVars, resolveVars, archVars, promptVars, compileVars, moreVars>>

\* process() finishes and execute runs the rest of the step block: it writes the
\* slot, appends the step, advances current_step and builds step_results; an
\* exception anywhere lands in the except clause of execute, which re-raises.
AgentReturns ==
    /\ pc.phase = "replied"
    /\ LET step == AgentAt(pc.k)
           result == Process(step, reply, Found(step))
       IN /\ active' = active \ {step}
          /\ reply' = NoReply
          /\ IF result.raised
             THEN /\ pc' = [pc EXCEPT !.phase = "raised"]
                  /\ failed_step' = step
                  /\ UNCHANGED <<slots, completed_steps, current_step>>
             ELSE /\ slots' = [slots EXCEPT ![SlotOf(step)] = result.val]
                  /\ completed_steps' = Append(completed_steps, step)
                  /\ current_step' = NextStepName(pc.k)
                  /\ IF StepResultsRaises(step, result.val)
                     THEN pc' = [pc EXCEPT !.phase = "raised"] /\ failed_step' = step
                     ELSE /\ pc' = IF pc.k < Len(StepOrder)
                                   THEN [phase |-> "ready", k |-> pc.k + 1]
                                   ELSE [phase |-> "compile", k |-> pc.k]
                          /\ UNCHANGED failed_step
    /\ UNCHANGED <<wf_history, calls, groq_failed, initial_state,
                   parseVars, resolveVars, archVars, promptVars, compileVars, moreVars>>

\* final_response = self._compile_comprehensive_response(initial_state); return.
Compile ==
    /\ pc.phase = "compile"
    /\ IF CompileRaises(slots)
       THEN pc' = [pc EXCEPT !.phase = "raised"] /\ failed_step' = "compile"
       ELSE pc' = [pc EXCEPT !.phase = "returned"] /\ UNCHANGED failed_step
    /\ UNCHANGED <<current_step, completed_steps, slots, wf_history, active, calls, reply,
                   groq_failed, initial_state,
                   parseVars, resolveVars, archVars, promptVars, compileVars, moreVars>>

Next ==
    \/ Enter
    \/ \E k \in 1..Len(StepOrder) : Invoke(k)
    \/ \E text \in UNION {Responses(step) : step \in Steps} : GroqReturns(text)
    \/ GroqRaises
    \/ AgentReturns
    \/ Compile

Spec == Init /\ [][Next]_vars

(***************************************************************************)
(* Properties of the execution (under Spec).                               *)
(***************************************************************************)
Completed(step) == \E i \in 1..Len(completed_steps) : completed_steps[i] = step
Prefix(n) == SubSeq(StepOrder, 1, n)

\* C1: execute invokes the eight agents strictly in the fixed order, the agent of
\* step k only once the slot of step k-1 has been written, never two steps at a
\* time, and a successful execution ends with current_step = "completed" and
\* completed_steps equal to the eight names in order.
C1_StrictlySequential ==
    /\ Len(calls) <= Len(StepOrder) /\ calls = Prefix(Len(calls))
    /\ \A i \in 2..Len(calls) : NonEmpty(slots[SlotOf(StepOrder[i - 1])])
    /\ Cardinality(active) <= 1
    /\ active # {} => active = {calls[Len(calls)]}
    /\ pc.phase = "returned" =>
           current_step = "completed" /\ completed_steps = StepOrder /\ calls = StepOrder

\* An execution returned its aggregate after the eight agents ran.
C1_Witness == pc.phase = "returned" /\ calls = StepOrder /\ active = {}

\* C2: the slot of every step named in completed_steps is non-empty, whatever the
\* completion service returned or raised for the step.
C2_CompletedSlotsNonEmpty ==
    \A i \in 1..Len(completed_steps) : NonEmpty(slots[SlotOf(completed_steps[i])])

\* The completion service raised for every step that requested it and all eight
\* steps are completed.
C2_Witness ==
    /\ Len(completed_steps) = Len(StepOrder)
    /\ groq_failed = Steps
    /\ \A n \in SlotNames : NonEmpty(slots[n])

\* C3: completed_steps is always a prefix of the eight-step order, is only ever
\* appended to, and current_step names the first step not in it, or "completed".
C3_PrefixAndCurrentStep ==
    /\ [](/\ Len(completed_steps) <= Len(StepOrder)
          /\ completed_steps = Prefix(Len(completed_steps))
          /\ current_step = IF Len(completed_steps) < Len(StepOrder)
                            THEN StepOrder[Len(completed_steps) + 1] ELSE "completed")
    /\ [][\/ completed_steps' = completed_steps
          \/ \E step \in Steps : completed_steps' = Append(completed_steps, step)]_vars

\* Three steps are completed and the architecture step is awaiting its completion.
C3_Witness ==
    /\ completed_steps = Prefix(3) /\ current_step = "architecture"
    /\ pc = [phase |-> "await", k |-> 4]

\* C4: when the execution fails while processing step k, completed_steps holds
\* exactly the k-1 earlier names, current_step names step k and nothing is returned.
C4_FailureLeavesEarlierSteps ==
    \A k \in 1..Len(StepOrder) :
        (pc.phase = "raised" /\ failed_step = StepOrder[k]) =>
            completed_steps = Prefix(k - 1) /\ current_step = StepOrder[k]

C6_MalformedOutputNeverFatal == pc.phase # "raised"

(***************************************************************************)
(* The architecture agent on component objects.  The routes module keeps   *)
(* one SequentialWorkflow, hence one ArchitectureAgent, for the process;    *)
(* requests run process() as coroutines that interleave at its two awaits. *)
(* A component is [id, body, viz]: viz says whether the dict has the key    *)
(* visualization_metadata; a connection is [from, to, viz].  Python dicts   *)
(* and lists are shared by reference: a_heap holds the current value of the *)
(* architectureUpdate object of each request's history.                    *)
(***************************************************************************)
Reqs == {1, 2}
Other(r) == CHOOSE q \in Reqs : q # r

Component(id, body, viz) == [id |-> id, body |-> body, viz |-> viz]
Connection(from, to, viz) == [from |-> from, to |-> to, viz |-> viz]
ArchObj(components, connections) == ("components" :> components) @@ ("connections" :> connections)

\* The architectureUpdate object in the history of request r.
HistoryArch(r) ==
    IF r = 1
    THEN ArchObj(<<Component("a1", "old", FALSE), Component("a2", "old", TRUE)>>,
                 <<Connection("a1", "a2", FALSE)>>)
    ELSE ArchObj(<<Component("b1", "old", FALSE)>>, << >>)
GivenChoices(r) == {EmptyDict, HistoryArch(r)}

\* _get_fallback_architecture() with its component and connection dicts.
FallbackComponents ==
    <<Component("frontend", "fallback", TRUE), Component("api-gateway", "fallback", TRUE),
      Component("backend-service", "fallback", TRUE), Component("database", "fallback", TRUE)>>
FallbackConnections ==
    <<Connection("frontend", "api-gateway", TRUE), Connection("api-gateway", "backend-service", TRUE),
      Connection("backend-service", "database", TRUE)>>
FallbackArchitectureObj ==
    Put(Put(Fallback("architecture"), "components", FallbackComponents),
        "connections", FallbackConnections)

\* The two loops that give every component and connection a visualization_metadata.
EnsureVisualizationMetadata(list) == [i \in 1..Len(list) |-> [list[i] EXCEPT !.viz = TRUE]]

\* _validate_architecture_design on a parsed object; current is the value of
\* self._current_existing_architecture (EmptyDict when unset or empty).  `shared`
\* says that the design's two lists are the list objects of `current`, so that the
\* loops write into the components and connections of `current`.
ValidateArchitectureDesignObj(design, current) ==
    LET a == SetDefaults(SetDefault(SetDefault(design, "components", << >>),
                                    "connections", << >>), Schema("architecture"))
        b == IF a["components"] # << >> THEN a
             ELSE IF NonEmpty(current)
             THEN Put(Put(a, "components", Get(current, "components", << >>)),
                      "connections", Get(current, "connections", << >>))
             ELSE Put(Put(a, "components", FallbackComponents), "connections", FallbackConnections)
    IN [design |-> Put(Put(b, "components", EnsureVisualizationMetadata(b["components"])),
                       "connections", EnsureVisualizationMetadata(b["connections"])),
        shared |-> a["components"] = << >> /\ NonEmpty(current)]

\* What the completion service may answer to the design request of a request whose
\* existing architecture has the components `old`: it raises, it returns text that
\* does not parse, or an object: empty, with new components only, with the old
\* components kept and one added, with the first old component superseded.
NewComponent == Component("n1", "new", FALSE)
DesignObjects(old) ==
    {EmptyDict, ArchObj(<<NewComponent>>, << >>), ArchObj(Append(old, NewComponent), << >>)}
    \cup (IF old = << >> THEN {}
          ELSE {ArchObj(<<Component(old[1].id, "new", FALSE), NewComponent>>, << >>)})
DesignReply(kind, design) == [kind |-> kind, design |-> design]
DesignReplies(old) ==
    {DesignReply("raise", EmptyDict), DesignReply("unparseable", EmptyDict)}
    \cup {DesignReply("json", d) : d \in DesignObjects(old)}

\* architecture_update and architecture_update.get('components'), on component lists.
IsEnhancementObj(existing) == NonEmpty(existing) /\ Get(existing, "components", << >>) # << >>
\* existing_architecture as the resolver finds it in a one-message history: the
\* object itself (named by its request) when it has components, else {} (0).
ExistingRef(r, heap) == IF IsEnhancementObj(heap[r]) THEN r ELSE 0

\* The lists of `design` written through to the object they are shared with.
WriteThrough(obj, design) ==
    [k \in DOMAIN obj |-> IF k \in {"components", "connections"} THEN design[k] ELSE obj[k]]

\* _parse_architecture_response: [val, ref, heap].  ref names the request whose
\* history object the returned dict is (0: a fresh dict); cur is
\* self._current_existing_architecture at the time of the call.
ParseArchitectureResponseObj(answer, cur, heap) ==
    IF answer.kind = "unparseable"
    THEN IF cur # 0 THEN [val |-> heap[cur], ref |-> cur, heap |-> heap]
         ELSE [val |-> FallbackArchitectureObj, ref |-> 0, heap |-> heap]
    ELSE LET v == ValidateArchitectureDesignObj(answer.design,
                                                IF cur = 0 THEN EmptyDict ELSE heap[cur])
         IN [val |-> v.design, ref |-> 0,
             heap |-> IF v.shared THEN [heap EXCEPT ![cur] = WriteThrough(@, v.design)]
                      ELSE heap]

\* process() from the answer of the design request to its return: [val, heap].
ArchitectureProcessTail(answer, cur, heap) ==
    IF answer.kind = "raise" THEN [val |-> FallbackArchitectureObj, heap |-> heap]
    ELSE LET p == ParseArchitectureResponseObj(answer, cur, heap)
             val == Put(p.val, "visualization_data", "lit_map")
         IN [val |-> val,
             heap |-> IF p.ref # 0 THEN [p.heap EXCEPT ![p.ref] = val] ELSE p.heap]

(***************************************************************************)
(* Specification SpecArch: two requests in ArchitectureAgent.process.      *)
(***************************************************************************)
NoDesignReply == DesignReply("none", EmptyDict)

InitArch ==
    /\ a_given \in [Reqs -> UNION {GivenChoices(r) : r \in Reqs}]
    /\ \A r \in Reqs : a_given[r] \in GivenChoices(r)
    /\ a_heap = a_given
    /\ a_pc = [r \in Reqs |-> "start"]
    /\ a_self = 0
    /\ a_existing = [r \in Reqs |-> 0]
    /\ a_path = [r \in Reqs |-> [classifier |-> "none", design |-> NoDesignReply]]
    /\ a_out = [r \in Reqs |-> EmptyDict]
    /\ IdleWorkflow /\ IdleParse /\ IdleResolve /\ IdlePrompt /\ IdleCompile /\ IdleMore

\* process() up to "await self._analyze_system_complexity(...)".
ResolveAndClassify(r) ==
    /\ a_pc[r] = "start"
    /\ a_existing' = [a_existing EXCEPT ![r] = ExistingRef(r, a_heap)]
    /\ a_pc' = [a_pc EXCEPT ![r] = "classify"]
    /\ UNCHANGED <<a_given, a_heap, a_self, a_path, a_out, wfVars, parseVars, resolveVars, promptVars, compileVars, moreVars>>

\* The classifier's completion request answers or raises (the classifier catches
\* it); process() stores the existing architecture on the agent, builds the design
\* prompt and reaches "await self.groq_service.query(architecture_prompt, ...)".
ClassifierDone(r, outcome) ==
    /\ a_pc[r] = "classify"
    /\ a_self' = a_existing[r]
    /\ a_path' = [a_path EXCEPT ![r].classifier = outcome]
    /\ a_pc' = [a_pc EXCEPT ![r] = "design"]
    /\ UNCHANGED <<a_given, a_heap, a_existing, a_out, wfVars, parseVars, resolveVars, promptVars, compileVars, moreVars>>

\* The design request answers or raises and process() runs to its return.
DesignDone(r, answer) ==
    /\ a_pc[r] = "design"
    /\ answer \in DesignReplies(Get(a_given[r], "components", << >>))
    /\ LET tail == ArchitectureProcessTail(answer, a_self, a_heap)
       IN a_out' = [a_out EXCEPT ![r] = tail.val] /\ a_heap' = tail.heap
    /\ a_path' = [a_path EXCEPT ![r].design = answer]
    /\ a_pc' = [a_pc EXCEPT ![r] = "done"]
    /\ UNCHANGED <<a_given, a_self, a_existing, wfVars, parseVars, resolveVars, promptVars, compileVars, moreVars>>

NextArch ==
    \E r \in Reqs :
        \/ ResolveAndClassify(r)
        \/ \E outcome \in {"answered", "failed"} : ClassifierDone(r, outcome)
        \/ \E answer \in UNION {DesignReplies(Get(HistoryArch(q), "components", << >>)) : q \in Reqs}
                            \cup DesignReplies(<< >>) :
               DesignDone(r, answer)

SpecArch == InitArch /\ [][NextArch]_vars

(***************************************************************************)
(* Properties of the architecture step (under SpecArch).                   *)
(***************************************************************************)
Returned(r) == a_pc[r] = "done"
Enhancing(r) == a_existing[r] = r
\* The request ran with no other request inside the agent.
Alone(r) == a_pc[Other(r)] = "start"
Holds(list, x) == \E i \in 1..Len(list) : list[i] = x

\* C11: when an existing architecture was identified and the design response does
\* not parse, the architecture_design the step returns is the existing architecture
\* verbatim: same components, same connections, no key added, removed or altered.
C11_ParseFailureReturnsExistingVerbatim ==
    \A r \in Reqs :
        (Returned(r) /\ Alone(r) /\ Enhancing(r) /\ a_path[r].design.kind = "unparseable")
            => a_out[r] = a_given[r]

\* C12: whenever the resolver is in ENHANCE mode and the architecture step completes,
\* by whatever path, every component and connection of the existing architecture is
\* in the returned architecture_design unchanged, except the components for which
\* the model's output has a component of the same id.
C12_PriorArchitectureNeverDiscarded ==
    \A r \in Reqs :
        (Returned(r) /\ Alone(r) /\ Enhancing(r)) =>
            LET old == a_given[r]
                new == Get(a_path[r].design.design, "components", << >>)
            IN /\ \A i \in 1..Len(old["components"]) :
                      \/ Holds(a_out[r]["components"], old["components"][i])
                      \/ \E j \in 1..Len(new) : new[j].id = old["components"][i].id
               /\ \A i \in 1..Len(old["connections"]) :
                      Holds(a_out[r]["connections"], old["connections"][i])

\* C13: the architecture_design a request gets depends only on its own state and
\* its own completion responses: it is what process() makes of them with no other
\* request in the agent; on a parse failure, the request's own existing
\* architecture or the generic fallback, never the other request's.
C13_ConcurrentRequestsIndependent ==
    \A r \in Reqs :
        Returned(r) =>
            a_out[r] = ArchitectureProcessTail(a_path[r].design, ExistingRef(r, a_given),
                                               a_given).val

\* C14: the conversation history is read-only within the pipeline: when the step has
\* returned, the architectureUpdate object of the request's history, with its
\* components and connections, equals its value before the call.
C14_HistoryReadOnly ==
    \A r \in Reqs : (Returned(r) /\ Alone(r)) => a_heap[r] = a_given[r]

(***************************************************************************)
(* Prompts.  A prompt is the sequence of its lines; a line is [kind, val].  *)
(* The content of a message is [id, len]: which text it is and how many     *)
(* characters it has; what a prompt shows of it is [id, shown, ellipsis].   *)
(***************************************************************************)
MaxCtxHist == 20        \* longest conversation history
MaxComponents == 11     \* most components of an existing architecture
RecentLimit == 6        \* conversation_history[-6:]
ContentLimit == 300     \* content[:300] + "..."
ListedLimit == 10       \* components[:10]

Line(kind, val) == [kind |-> kind, val |-> val]
HasLine(prompt, kind) == \E i \in 1..Len(prompt) : prompt[i].kind = kind
LinesOf(prompt, kind) == SelectSeq(prompt, LAMBDA l : l.kind = kind)

\* if len(content) > 300: content = content[:300] + "..."
Truncate(content) ==
    IF content.len > ContentLimit
    THEN [id |-> content.id, shown |-> ContentLimit, ellipsis |-> TRUE]
    ELSE [id |-> content.id, shown |-> content.len, ellipsis |-> FALSE]

\* recent_messages = history[-6:] if len(history) > 6 else history
OldestMessagesMutant(history) ==
    IF Len(history) > RecentLimit THEN SubSeq(history, 1, RecentLimit) ELSE history
RecentMessages(history) ==
    IF Len(history) > RecentLimit
    THEN SubSeq(history, Len(history) - RecentLimit + 1, Len(history))
    ELSE history

\* "- {role}: [ARCHITECTURE UPDATE] {content}" or "- {role}: {content}"
RenderMessage(msg) ==
    Line("message", [role |-> msg.role, tag |-> msg.messageType = "ARCHITECTURE_UPDATE",
                     content |-> Truncate(msg.content)])

\* The block _build_context_prompt adds for a non-empty history.
ConversationContext(history) ==
    IF history = << >> THEN << >>
    ELSE <<Line("context_header", "PREVIOUS CONVERSATION CONTEXT:")>>
         \o [i \in 1..Len(RecentMessages(history)) |-> RenderMessage(RecentMessages(history)[i])]
         \o <<Line("context_note", "Build upon and enhance previous architectural decisions")>>

\* BaseAgent._build_context_prompt(prompt, state), for a profile without
\* business_role and a state without business_context (their defaults).
BuildContextPrompt(prompt, state) ==
    <<Line("user_query", "q"), Line("user_expertise", "e")>>
    \o ConversationContext(state.conversation_history)
    \o (IF NonEmpty(state.requirements_analysis)
        THEN <<Line("Requirements", state.requirements_analysis)>> ELSE << >>)
    \o (IF NonEmpty(state.research_findings)
        THEN <<Line("Research", state.research_findings)>> ELSE << >>)
    \o (IF NonEmpty(state.architecture_design)
        THEN <<Line("EXISTING ARCHITECTURE", state.architecture_design),
               Line("important", "Enhance and extend the existing architecture")>>
        ELSE << >>)
    \o <<Line("current_task", prompt)>>

\* The lines _build_architecture_prompt_with_analysis puts before the analysis of
\* the classifier, for the existing architecture the resolver returned.
ListAllComponentsMutant(components) == components
ListedComponents(components) ==
    IF Len(components) > ListedLimit THEN SubSeq(components, 1, ListedLimit) ELSE components

PreservationLines ==
    <<Line("preserve", "PRESERVE all existing components and their relationships"),
      Line("preserve", "ADD new components to fulfill the new requirements"),
      Line("preserve", "EXTEND existing components if they can be enhanced"),
      Line("preserve", "MAINTAIN architectural consistency and patterns"),
      Line("preserve", "INTEGRATE new functionality seamlessly with existing system")>>

EnhancementBlock(existing) ==
    LET components == Get(existing, "components", << >>)
        listed == ListedComponents(components)
    IN <<Line("enhance_opening", "ENHANCE the existing architecture by adding:"),
         Line("user_expertise", "e"),
         Line("existing_header", "EXISTING ARCHITECTURE TO ENHANCE:"),
         Line("current_components", Len(components)),
         Line("current_types", {components[i].type : i \in 1..Len(components)}),
         Line("components_header", "EXISTING COMPONENTS:")>>
       \o [i \in 1..Len(listed) |->
               Line("component", [name |-> listed[i].name, type |-> listed[i].type])]
       \o (IF Len(components) > ListedLimit
           THEN <<Line("more_components", Len(components) - ListedLimit)>> ELSE << >>)
       \o <<Line("requirements_header", "ENHANCEMENT REQUIREMENTS:")>>
       \o PreservationLines
       \o <<Line("analysis_header", "INTELLIGENT SYSTEM ANALYSIS FOR ENHANCEMENT:")>>

NewDesignBlock ==
    <<Line("new_opening", "Design a comprehensive, production-ready architecture for:"),
      Line("user_expertise", "e"),
      Line("analysis_header", "INTELLIGENT SYSTEM ANALYSIS:")>>

\* The rest of the prompt is the same in both modes: the classifier's analysis, the
\* requirements and research of the state, and the closing instructions.
BuildArchitecturePromptWithAnalysis(state, existing) ==
    (IF IsEnhancementObj(existing) THEN EnhancementBlock(existing) ELSE NewDesignBlock)
    \o <<Line("analysis", "complexity_analysis"),
         Line("guidance", "ARCHITECTURE COMPONENT GUIDANCE:"),
         Line("requirements", state.requirements_analysis),
         Line("research", state.research_data),
         Line("closing", "Please design a comprehensive architecture that:")>>

\* The prompt each agent's process() hands to the completion service.  The
\* orchestrator and the requirements agent call query_groq_with_context, which
\* wraps the agent's prompt by _build_context_prompt; the other six pass the prompt
\* of their own builder to groq_service.query directly.
OwnPrompt(agent) == <<Line("agent_prompt", agent)>>
PromptSent(agent, state) ==
    CASE agent \in {"orchestrator", "requirements"} -> BuildContextPrompt(OwnPrompt(agent), state)
      [] agent = "architecture" -> BuildArchitecturePromptWithAnalysis(state, state.existing)
      [] OTHER -> OwnPrompt(agent)

(***************************************************************************)
(* Specification SpecPrompt: one prompt built from one WorkflowState.      *)
(***************************************************************************)
\* Messages of four kinds in rotation; message i has the content numbered i.
MessageKinds ==
    <<[role |-> "user", messageType |-> "TEXT", len |-> 12],
      [role |-> "assistant", messageType |-> "ARCHITECTURE_UPDATE", len |-> ContentLimit + 1],
      [role |-> "assistant", messageType |-> "TEXT", len |-> ContentLimit],
      [role |-> "user", messageType |-> "ARCHITECTURE_UPDATE", len |-> 5]>>
ConversationHistory(n, shift) ==
    [i \in 1..n |->
        LET kind == MessageKinds[((i + shift) % Len(MessageKinds)) + 1]
        IN [role |-> kind.role, messageType |-> kind.messageType,
            content |-> [id |-> i, len |-> kind.len]]]
PromptHistories == {ConversationHistory(n, shift) : n \in 0..MaxCtxHist, shift \in {0, 1}}

\* Existing architectures as the resolver returns them: nothing, a dict without
\* components, a dict with n named components.
NamedComponents(n) ==
    [i \in 1..n |-> [name |-> i, type |-> IF i % 2 = 1 THEN "service" ELSE "database"]]
ExistingArchitectures ==
    {EmptyDict, ("connections" :> << >>)}
    \cup {ArchObj(NamedComponents(n), << >>) : n \in 0..MaxComponents}

\* The WorkflowState after execute has run its first k step blocks; the caller's
\* research_findings is never written by execute.
StateAfter(k, history, findings, existing) ==
    LET written(step, i) == IF k >= i THEN ProcessFallback(step) ELSE EmptyDict
    IN [conversation_history |-> history,
        completed_steps |-> SubSeq(StepOrder, 1, k),
        requirements_analysis |-> written("requirements", 2),
        research_findings |-> findings,
        research_data |-> written("research", 3),
        architecture_design |-> written("architecture", 4),
        existing |-> existing]

InitPrompt ==
    /\ \E k \in 0..Len(StepOrder), history \in PromptHistories,
          findings \in {EmptyDict, Fallback("research")}, existing \in ExistingArchitectures :
           q_state = StateAfter(k, history, findings, existing)
    /\ q_agent = [name |-> "none", call |-> "none"]
    /\ q_prompt = << >>
    /\ IdleWorkflow /\ IdleParse /\ IdleResolve /\ IdleArch /\ IdleCompile /\ IdleMore

\* The agent of the next step runs process() up to its completion request.
SendPrompt(agent) ==
    /\ q_agent.name = "none"
    /\ Len(q_state.completed_steps) < Len(StepOrder)
    /\ agent = AgentAt(Len(q_state.completed_steps) + 1)
    /\ q_agent' = [name |-> agent, call |-> "process"]
    /\ q_prompt' = PromptSent(agent, q_state)
    /\ UNCHANGED <<q_state, wfVars, parseVars, resolveVars, archVars, compileVars, moreVars>>

\* An agent builds the context prompt of the state by the shared builder.
BuildContext(agent) ==
    /\ q_agent.name = "none"
    /\ q_agent' = [name |-> agent, call |-> "_build_context_prompt"]
    /\ q_prompt' = BuildContextPrompt(OwnPrompt(agent), q_state)
    /\ UNCHANGED <<q_state, wfVars, parseVars, resolveVars, archVars, compileVars, moreVars>>

NextPrompt == \E agent \in Steps : SendPrompt(agent) \/ BuildContext(agent)

SpecPrompt == InitPrompt /\ [][NextPrompt]_vars

(***************************************************************************)
(* Properties of the prompts (under SpecPrompt).                           *)
(***************************************************************************)
Sent(agent) == q_agent = [name |-> agent, call |-> "process"]
ContextBuilt == q_agent.call = "_build_context_prompt"
Min(a, b) == IF a < b THEN a ELSE b
HasLineWith(prompt, kind, val) ==
    \E i \in 1..Len(prompt) : prompt[i].kind = kind /\ prompt[i].val = val
InCompleted(step) ==
    \E i \in 1..Len(q_state.completed_steps) : q_state.completed_steps[i] = step

C16_EveryAgentSendsConversationContext ==
    \A agent \in Steps :
        (Sent(agent) /\ q_state.conversation_history # << >>) =>
            /\ HasLine(q_prompt, "context_header")
            /\ HasLine(q_prompt, "message")
            /\ HasLine(q_prompt, "context_note")

\* C17: the context prompt renders exactly the last min(n, 6) messages of an
\* n-message history in their order; content longer than 300 characters is shown
\* as its first 300 characters and "...", shorter content unchanged; messages of
\* type ARCHITECTURE_UPDATE carry the [ARCHITECTURE UPDATE] tag.
C17_LastSixMessagesTruncated ==
    ContextBuilt =>
        LET history == q_state.conversation_history
            n == Len(history)
            m == Min(n, 6)
            rendered == LinesOf(q_prompt, "message")
        IN /\ Len(rendered) = m
           /\ \A j \in 1..m :
                LET msg == history[n - m + j]
                    shown == rendered[j].val
                IN /\ shown.role = msg.role
                   /\ shown.content.id = msg.content.id
                   /\ shown.tag = (msg.messageType = "ARCHITECTURE_UPDATE")
                   /\ IF msg.content.len > 300
                      THEN shown.content.shown = 300 /\ shown.content.ellipsis
                      ELSE shown.content.shown = msg.content.len /\ ~shown.content.ellipsis

\* A history of twenty messages: messages 15..20 are rendered, one of them cut.
C17_Witness ==
    /\ ContextBuilt
    /\ Len(q_state.conversation_history) = 20
    /\ LET rendered == LinesOf(q_prompt, "message")
       IN /\ Len(rendered) = 6
          /\ rendered[1].val.content.id = 15 /\ rendered[6].val.content.id = 20
          /\ \E j \in 1..6 : rendered[j].val.content.ellipsis

\* C18: whenever the requirements, research or architecture step is in
\* completed_steps, the context prompt has the labeled section with that step's
\* output; in particular every context prompt built after the research step has the
\* Research section.
C18_PriorOutputsAreLabeledSections ==
    ContextBuilt =>
        /\ InCompleted("requirements")
             => HasLineWith(q_prompt, "Requirements", q_state.requirements_analysis)
        /\ InCompleted("research")
             => HasLineWith(q_prompt, "Research", q_state.research_data)
        /\ InCompleted("architecture")
             => HasLineWith(q_prompt, "EXISTING ARCHITECTURE", q_state.architecture_design)

(***************************************************************************)
(* The aggregate of _compile_comprehensive_response.  A confidence score is *)
(* a number of hundredths (0.85 is 85) and a quotient is kept exact as      *)
(* [num, den].                                                            *)
(***************************************************************************)
MaxPool == 3              \* longest list an agent output holds
DefaultConfidence == 85   \* return 0.85

FirstN(list, n) == IF Len(list) > n THEN SubSeq(list, 1, n) ELSE list
RECURSIVE SumSeq(_)
SumSeq(list) == IF list = << >> THEN 0 ELSE Head(list) + SumSeq(Tail(list))
Quotient(num, den) == [num |-> num, den |-> den]

\* The keys of agent_outputs in the order the dict literal gives them.
OutputOrder == [i \in 1..Len(StepOrder) |-> SlotOf(StepOrder[i])]

\* _calculate_overall_confidence(agent_outputs)
MeanOverAllOutputsMutant(agent_outputs) ==
    LET reporting == SelectSeq(OutputOrder, LAMBDA n : "confidence_score" \in DOMAIN agent_outputs[n])
    IN Quotient(SumSeq([i \in 1..Len(reporting) |-> agent_outputs[reporting[i]]["confidence_score"]]),
                Len(OutputOrder))
CalculateOverallConfidence(agent_outputs) ==
    LET reporting == SelectSeq(OutputOrder, LAMBDA n : "confidence_score" \in DOMAIN agent_outputs[n])
        confidence_scores ==
            [i \in 1..Len(reporting) |-> agent_outputs[reporting[i]]["confidence_score"]]
    IN IF confidence_scores # << >>
       THEN Quotient(SumSeq(confidence_scores), Len(confidence_scores))
       ELSE Quotient(DefaultConfidence, 1)

FallbackQuestions ==
    <<"Would you like me to explain any specific architectural decisions in more detail?",
      "Are there particular aspects of the implementation you'd like to focus on?",
      "Do you have questions about the business impact or ROI analysis?",
      "Would you like to explore the educational content for any specific technologies?">>
FallbackActions ==
    <<"Review and approve the architecture design document",
      "Begin implementation planning and team preparation",
      "Set up development environment and initial infrastructure",
      "Start with the first implementation phase">>

\* _extract_comprehensive_questions(state)
ExtractComprehensiveQuestions(state) ==
    LET requirements == state["requirements_analysis"]
        educational == state["educational_content"]
        clarification == IF NonEmpty(requirements)
                         THEN Get(requirements, "clarification_questions", << >>) ELSE << >>
        assessment == IF NonEmpty(educational)
                      THEN FirstN(Get(educational, "assessment_questions", << >>), 2) ELSE << >>
        questions == clarification \o [i \in 1..Len(assessment) |-> assessment[i].question]
    IN FirstN(IF questions = << >> THEN FallbackQuestions ELSE questions, 4)

\* _extract_comprehensive_actions(state); "Achieve <milestone> within <timeline>" and
\* "Phase <phase>: <name> (<duration>)" are kept as the entry they are made from.
ExtractComprehensiveActions(state) ==
    LET business_impact == state["business_impact"]
        architecture == state["architecture_design"]
        timeline == IF NonEmpty(business_impact)
                    THEN Get(business_impact, "timeline_impact", EmptyDict) ELSE EmptyDict
        milestones == IF NonEmpty(timeline)
                      THEN FirstN(Get(timeline, "business_value_realization", << >>), 2)
                      ELSE << >>
        phases == IF NonEmpty(architecture)
                  THEN FirstN(Get(architecture, "implementation_phases", << >>), 2) ELSE << >>
        actions == [i \in 1..Len(milestones) |-> <<"Achieve", milestones[i]>>]
                   \o [i \in 1..Len(phases) |-> <<"Phase", phases[i]>>]
    IN FirstN(IF actions = << >> THEN FallbackActions ELSE actions, 4)

\* The three fields of the aggregate that are computed from the agent outputs.
CompileComprehensiveResponse(state) ==
    [next_questions |-> ExtractComprehensiveQuestions(state),
     suggested_actions |-> ExtractComprehensiveActions(state),
     confidence_score |-> CalculateOverallConfidence(state)]

(***************************************************************************)
(* Specification SpecCompile: one call of _compile_comprehensive_response. *)
(***************************************************************************)
ListsOver(items) == UNION {[1..n -> items] : n \in 0..MaxPool}
NoOutputs == [n \in SlotNames |-> EmptyDict]
With(outputs, n, d) == [outputs EXCEPT ![n] = d]

\* Outputs of which some report a confidence_score.
ScoredOutputs ==
    {[n \in SlotNames |-> IF n \in reporting THEN ("confidence_score" :> scores[n])
                          ELSE ("summary" :> "str")] :
        reporting \in SUBSET SlotNames, scores \in [SlotNames -> {70, 90}]}

\* Outputs whose lists feed next_questions, and outputs whose lists feed
\* suggested_actions.
QuestionOutputs ==
    {With(With(NoOutputs, "requirements_analysis", r), "educational_content", e) :
        r \in {EmptyDict} \cup {("clarification_questions" :> l) : l \in ListsOver({"q1", "q2"})},
        e \in {EmptyDict} \cup {("assessment_questions" :> l) :
                                   l \in ListsOver({[question |-> "q1"], [question |-> "q3"]})}}
ActionOutputs ==
    {With(With(NoOutputs, "business_impact", b), "architecture_design", a) :
        b \in {EmptyDict} \cup {("timeline_impact" :> ("business_value_realization" :> l)) :
                                   l \in ListsOver({"m1", "m2"})},
        a \in {EmptyDict} \cup {("implementation_phases" :> l) : l \in ListsOver({"p1", "p2"})}}

InitCompile ==
    /\ g_state \in ScoredOutputs \cup QuestionOutputs \cup ActionOutputs
    /\ g_out = EmptyDict
    /\ IdleWorkflow /\ IdleParse /\ IdleResolve /\ IdleArch /\ IdlePrompt /\ IdleMore

CompileResponse ==
    /\ g_out = EmptyDict
    /\ g_out' = CompileComprehensiveResponse(g_state)
    /\ UNCHANGED <<g_state, wfVars, parseVars, resolveVars, archVars, promptVars, moreVars>>

NextCompile == CompileResponse

SpecCompile == InitCompile /\ [][NextCompile]_vars

(***************************************************************************)
(* Properties of the aggregate (under SpecCompile).                        *)
(***************************************************************************)
Compiled == g_out # EmptyDict
Reporting == {n \in SlotNames : "confidence_score" \in DOMAIN g_state[n]}
RECURSIVE SumOver(_)
SumOver(names) ==
    IF names = {} THEN 0
    ELSE LET n == CHOOSE x \in names : TRUE
         IN g_state[n]["confidence_score"] + SumOver(names \ {n})
NoDuplicates(list) == \A i, j \in 1..Len(list) : i # j => list[i] # list[j]
Listed(d, k) == IF k \in DOMAIN d THEN d[k] ELSE << >>

\* C19: the aggregate's confidence_score is the arithmetic mean of the
\* confidence_score of all agent outputs that report one, each counted once, and
\* 0.85 when none reports one.
C19_ConfidenceIsMeanOfReported ==
    Compiled =>
        LET c == g_out.confidence_score
        IN /\ c.den > 0
           /\ IF Reporting = {} THEN c.num = 85 * c.den
              ELSE c.num * Cardinality(Reporting) = SumOver(Reporting) * c.den

\* Three of the eight outputs report 0.7, 0.9 and 0.9: the aggregate reports their
\* mean, 2.5 / 3.
C19_Witness ==
    /\ Compiled
    /\ Cardinality(Reporting) = 3
    /\ SumOver(Reporting) = 250
    /\ g_out.confidence_score = Quotient(250, 3)

\* C20: next_questions and suggested_actions are pooled from the agent outputs and
\* hold no value twice, and each is its static fallback list exactly when the agents
\* produced no entry for it.
C20_PooledListsDeduplicated ==
    Compiled =>
        LET noQuestion == /\ Listed(g_state["requirements_analysis"], "clarification_questions") = << >>
                          /\ Listed(g_state["educational_content"], "assessment_questions") = << >>
            noAction == /\ Listed(Listed(g_state["business_impact"], "timeline_impact"),
                                  "business_value_realization") = << >>
                        /\ Listed(g_state["architecture_design"], "implementation_phases") = << >>
        IN /\ NoDuplicates(g_out.next_questions)
           /\ NoDuplicates(g_out.suggested_actions)
           /\ (g_out.next_questions = FallbackQuestions) <=> noQuestion
           /\ (g_out.suggested_actions = FallbackActions) <=> noAction

(***************************************************************************)
(* Entry validation of SequentialWorkflow.execute.                         *)
(***************************************************************************)
Rejected == pc.phase = "rejected"

\* C21: an execution handed a state whose conversation id or user query is empty,
\* or whose user profile is missing, never invokes an agent or asks for a
\* completion, never starts a step, and leaves completed_steps, current_step and
\* every output slot as they were handed in; it ends rejected at the entry.
C21_InvalidStateRejectedBeforeAnyAgent ==
    (\/ initial_state.conversation_id = ""
     \/ initial_state.user_query = ""
     \/ initial_state.user_profile = "None") =>
        /\ pc.phase \in {"entry", "rejected"}
        /\ calls = << >> /\ active = {} /\ reply = NoReply /\ groq_failed = {}
        /\ completed_steps = << >> /\ current_step = "orchestrator"
        /\ \A n \in SlotNames : slots[n] = EmptyDict

C21_Witness ==
    /\ Rejected
    /\ initial_state.user_query = "" /\ initial_state.conversation_id # ""
    /\ initial_state.user_profile # "None"

(***************************************************************************)
(* Specification SpecGroq: tasks calling GroqService.query on one service. *)
(* Time is kept as ages: an entry of RateLimiter.requests is stored as     *)
(* now - req_time, which is all that acquire reads of it; ages stop        *)
(* growing at TimeWindow, where the entry has left the window.             *)
(***************************************************************************)
Tasks == {1, 2}

\* settings.groq_rate_limit_per_minute and time_window, scaled down.
MaxRequests == 2
TimeWindow == 2

\* stop=stop_after_attempt(3)
StopAttempts == 3

SelectAges(ages, now_shift) == SelectSeq(ages, LAMBDA age : age + now_shift < TimeWindow)

\* Completion attempts made so far by the query call of task t.
Attempts(log) == Len(SelectSeq(log, LAMBDA e : e \in {"ok", "fail"}))

\* Stand-in for the stop condition that never stops the retrying.
NeverStopMutant(attempt_number) == FALSE

\* stop_after_attempt: the retrying stops once attempt_number reaches the limit.
StopAfterAttempt(attempt_number) == attempt_number >= StopAttempts

InitGroq ==
    /\ lim_requests = << >> /\ lim_lock = 0
    /\ qy_pc = [t \in Tasks |-> "idle"]
    /\ qy_sleep = [t \in Tasks |-> 0]
    /\ qy_log = [t \in Tasks |-> << >>]
    /\ IdleOld /\ IdleClassify /\ IdleResearch

\* A caller awaits service.query(...): the first attempt starts and calls
\* rate_limiter.acquire(), which waits for the lock.
CallQuery(t) ==
    /\ qy_pc[t] = "idle"
    /\ qy_pc' = [qy_pc EXCEPT ![t] = "lock_wait"]
    /\ UNCHANGED <<lim_requests, lim_lock, qy_sleep, qy_log,
                   groqRest>>

\* async with self._lock: the body of acquire up to its first await or its end.
\* Entries outside the window are dropped; under the limit the call is recorded
\* and acquire returns, releasing the lock; at the limit the task goes to sleep
\* inside the lock.
AcquireBody(t) ==
    /\ qy_pc[t] = "lock_wait"
    /\ lim_lock = 0
    /\ LET requests == SelectAges(lim_requests, 0)
           sleep_time == IF requests = << >> THEN 0 ELSE TimeWindow - requests[1]
       IN IF Len(requests) >= MaxRequests /\ sleep_time > 0
          THEN /\ lim_requests' = requests
               /\ lim_lock' = t
               /\ qy_sleep' = [qy_sleep EXCEPT ![t] = sleep_time]
               /\ qy_pc' = [qy_pc EXCEPT ![t] = "sleeping"]
               /\ UNCHANGED qy_log
          ELSE /\ lim_requests' = Append(requests, 0)
               /\ lim_lock' = 0
               /\ qy_pc' = [qy_pc EXCEPT ![t] = "acquired"]
               /\ qy_log' = [qy_log EXCEPT ![t] = Append(@, "acquire")]
               /\ UNCHANGED qy_sleep
    /\ UNCHANGED groqRest

\* Time advances by one unit: every recorded call grows older, every sleep shorter.
Tick ==
    /\ lim_requests' = [i \in 1..Len(lim_requests) |->
                           IF lim_requests[i] < TimeWindow THEN lim_requests[i] + 1
                           ELSE lim_requests[i]]
    /\ qy_sleep' = [t \in Tasks |-> IF qy_sleep[t] > 0 THEN qy_sleep[t] - 1 ELSE 0]
    /\ UNCHANGED <<lim_lock, qy_pc, qy_log,
                   groqRest>>

\* asyncio.sleep(sleep_time) is over: return await self.acquire(), a second call
\* of acquire made inside the async with block, so with the lock still held by
\* the sleeping call.
Wake(t) ==
    /\ qy_pc[t] = "sleeping" /\ qy_sleep[t] = 0
    /\ qy_pc' = [qy_pc EXCEPT ![t] = "lock_wait"]
    /\ UNCHANGED <<lim_requests, lim_lock, qy_sleep, qy_log,
                   groqRest>>

\* The completion request of this attempt succeeds: query returns the content.
CompletionReturns(t) ==
    /\ qy_pc[t] = "acquired"
    /\ qy_log' = [qy_log EXCEPT ![t] = Append(@, "ok")]
    /\ qy_pc' = [qy_pc EXCEPT ![t] = "returned"]
    /\ UNCHANGED <<lim_requests, lim_lock, qy_sleep,
                   groqRest>>

\* The completion request of this attempt fails: the body of query raises, and
\* the retry decorator either waits for another attempt or raises to the caller.
CompletionRaises(t) ==
    /\ qy_pc[t] = "acquired"
    /\ qy_log' = [qy_log EXCEPT ![t] = Append(@, "fail")]
    /\ qy_pc' = [qy_pc EXCEPT ![t] =
                    IF StopAfterAttempt(Attempts(qy_log[t]) + 1) THEN "raised" ELSE "backoff"]
    /\ UNCHANGED <<lim_requests, lim_lock, qy_sleep,
                   groqRest>>

\* The wait between attempts is over: the body of query runs again from its
\* first line, await self.rate_limiter.acquire().
Retry(t) ==
    /\ qy_pc[t] = "backoff"
    /\ qy_pc' = [qy_pc EXCEPT ![t] = "lock_wait"]
    /\ UNCHANGED <<lim_requests, lim_lock, qy_sleep, qy_log,
                   groqRest>>

NextGroq ==
    \/ \E t \in Tasks : CallQuery(t)
    \/ \E t \in Tasks : AcquireBody(t)
    \/ Tick
    \/ \E t \in Tasks : Wake(t)
    \/ \E t \in Tasks : CompletionReturns(t)
    \/ \E t \in Tasks : CompletionRaises(t)
    \/ \E t \in Tasks : Retry(t)

SpecGroq == InitGroq /\ [][NextGroq]_vars

\* The same with the scheduling of the event loop: time advances, a task that can
\* run is run, the lock is handed to its waiters in turn, and every completion
\* request and every wait between attempts ends.
SpecGroqFair ==
    /\ SpecGroq
    /\ WF_vars(Tick)
    /\ \A t \in Tasks :
        /\ SF_vars(AcquireBody(t))
        /\ WF_vars(Wake(t))
        /\ WF_vars(CompletionReturns(t) \/ CompletionRaises(t))
        /\ WF_vars(Retry(t))

\* C22: every call of RateLimiter.acquire eventually returns, also when
\* max_requests acquisitions lie inside the window and also for the tasks that
\* wait on the lock while another one sleeps.
C22_AcquireEventuallyReturns ==
    \A t \in Tasks : (qy_pc[t] = "lock_wait") ~> (qy_pc[t] = "acquired")

\* C27: one query call makes at most three completion attempts, each one right
\* after passing the rate limiter; a successful attempt is the last thing the call
\* does; after a third failed attempt the call has raised to its caller.
C27_AtMostThreeAttempts ==
    \A t \in Tasks :
        LET log == qy_log[t] IN
        /\ Attempts(log) <= 3
        /\ \A i \in 1..Len(log) :
            /\ log[i] \in {"ok", "fail"} => i > 1 /\ log[i - 1] = "acquire"
            /\ log[i] = "ok" => i = Len(log) /\ qy_pc[t] = "returned"
        /\ qy_pc[t] = "raised" => Attempts(log) = 3 /\ log[Len(log)] = "fail"
        /\ (Attempts(log) = 3 /\ log[Len(log)] = "fail") => qy_pc[t] = "raised"

C27_Witness ==
    \E t \in Tasks :
        /\ qy_pc[t] = "raised"
        /\ qy_log[t] = <<"acquire", "fail", "acquire", "fail", "acquire", "fail">>

(***************************************************************************)
(* Specification SpecClassify: two runs of _analyze_system_complexity on   *)
(* the same user query, existing architecture and completion reply.        *)
(***************************************************************************)
Runs == {1, 2}
Seeds == {1, 2}

\* A component as the classifier reads it: a dict with a type (a string, a number
\* or no type at all) or a value that is no dict.
ClComponent(kind, type) == [kind |-> kind, type |-> type]
ClArchitecture(components, metadata) ==
    [present |-> TRUE, components |-> components, metadata |-> metadata]
ClNone == [present |-> FALSE, components |-> << >>, metadata |-> "absent"]

ClassifiedArchitectures ==
    {ClNone,
     ClArchitecture(<< >>, "absent"),
     ClArchitecture(<<ClComponent("dict", "service")>>, "dict"),
     ClArchitecture(<<ClComponent("dict", "service"), ClComponent("dict", "database")>>, "absent"),
     ClArchitecture(<<ClComponent("dict", "database"), ClComponent("dict", "absent"),
                      ClComponent("dict", "database")>>, "dict"),
     ClArchitecture(<<ClComponent("str", "absent")>>, "absent"),
     ClArchitecture(<<ClComponent("dict", "num")>>, "absent"),
     ClArchitecture(<<ClComponent("dict", "service")>>, "None")}

\* comp.get('type', 'unknown')
TypeOf(comp) == IF comp.type = "absent" THEN "unknown" ELSE comp.type

TypeRank(type) ==
    CASE type = "service" -> 1 [] type = "database" -> 2 [] type = "unknown" -> 3 [] OTHER -> 4

\* Stand-in for the iteration order that lists every set alike whatever the seed.
UnseededOrderMutant(seed, types) ==
    IF seed = 1
    THEN CHOOSE q \in [1..Cardinality(types) -> types] :
             \A i, j \in DOMAIN q : i < j => TypeRank(q[i]) < TypeRank(q[j])
    ELSE << >>

\* Iteration over set(...) of strings: the order follows the string hashes, which
\* are seeded per interpreter process; one order per seed.
HashOrder(seed, types) ==
    CHOOSE q \in [1..Cardinality(types) -> types] :
        \A i, j \in DOMAIN q :
            i < j => IF seed = 1 THEN TypeRank(q[i]) < TypeRank(q[j])
                     ELSE TypeRank(q[i]) > TypeRank(q[j])

\* The analysis prompt, built before the try block: [raised, prompt].
AnalysisPrompt(user_query, existing, seed) ==
    LET comps == existing.components
        ix == 1..Len(comps)
        none == [mode |-> "none", query |-> "", count |-> 0, types |-> << >>]
    IN IF existing.present /\ comps # << >>
       THEN IF \/ \E i \in ix : comps[i].kind # "dict"
               \/ \E i \in ix : comps[i].type = "num"
               \/ existing.metadata = "None"
            THEN [raised |-> TRUE, prompt |-> none]
            ELSE [raised |-> FALSE,
                  prompt |-> [mode |-> "enhance", query |-> user_query, count |-> Len(comps),
                              types |-> HashOrder(seed, {TypeOf(comps[i]) : i \in ix})]]
       ELSE [raised |-> FALSE,
             prompt |-> [mode |-> "new", query |-> user_query, count |-> 0, types |-> << >>]]

\* The record returned by the except clause.
DefaultAnalysis ==
    [kind |-> "obj",
     obj |-> [complexity_level |-> "moderate", criticality_level |-> "important",
              performance_requirements |-> "optimized", scale_requirements |-> "medium",
              domain_type |-> "web_app", architecture_patterns_suggested |-> "lit_list",
              required_components_count |-> "6-10", infrastructure_needs |-> "lit_list",
              reasoning |-> "Default analysis due to parsing error"]]

\* The span the classifier hands to json.loads: [ok, str].
AnalysisJsonStr(response) ==
    IF Has(response, FENCE)
    THEN LET json_start == Find(response, {FENCE}, 1) + 1
             json_end == Find(response, {FENCE, TICKS}, json_start)
         IN [ok |-> TRUE,
             str |-> IF json_end = -1
                     THEN DropLastChar(Slice(response, json_start, Len(response) + 1))
                     ELSE Slice(response, json_start, json_end)]
    ELSE IF Has(response, LB)
    THEN [ok |-> TRUE,
          str |-> Slice(response, Find(response, {LB}, 1), RFind(response, RB) + 1)]
    ELSE [ok |-> FALSE, str |-> << >>]

\* The try block: the completion request, the extraction and json.loads, whose
\* value is returned as it is; any exception gives the default record.
AnalyzeSystemComplexity(answer) ==
    IF answer.kind = "raise" THEN DefaultAnalysis
    ELSE LET span == AnalysisJsonStr(answer.text)
             loaded == JsonLoads(span.str)
         IN IF ~span.ok \/ ~loaded.ok THEN DefaultAnalysis
            ELSE [kind |-> loaded.kind, obj |-> loaded.obj]

\* What process and the design prompt ask of the classification: .get(...) on it,
\* and ', '.join(...) over its infrastructure needs and suggested patterns.
PromptBuildable(analysis) ==
    /\ analysis.kind = "obj"
    /\ \A k \in {"infrastructure_needs", "architecture_patterns_suggested"} :
        k \in DOMAIN analysis.obj => analysis.obj[k] # "num"

ClRaise == [kind |-> "raise", text |-> << >>]
ClText(text) == [kind |-> "text", text |-> text]

\* Completion failure, text without JSON, invalid JSON, and JSON that is a list.
MalformedReplies ==
    {ClRaise, ClText(<<BULLET>>), ClText(<<LS, RS>>),
     ClText(<<LB, KV("complexity_level", "str")>>), ClText(<<FENCE, LB, RB>>),
     ClText(<<FENCE, LS, RS, TICKS>>)}

WellFormedReplies ==
    {ClText(<<LB, RB>>),
     ClText(<<FENCE, LB, KV("complexity_level", "str"), RB, TICKS>>),
     ClText(<<BULLET, LB, KV("complexity_level", "str"), KV("infrastructure_needs", "num"), RB>>)}

InitClassify ==
    /\ cl_existing \in ClassifiedArchitectures
    /\ cl_reply \in MalformedReplies \cup WellFormedReplies
    /\ cl_seed \in [Runs -> Seeds]
    /\ cl_pc = [r \in Runs |-> "ready"]
    /\ cl_prompt = [r \in Runs |-> << >>]
    /\ cl_out = [r \in Runs |-> << >>]
    /\ IdleOld /\ IdleGroq /\ IdleResearch

\* The classifier builds its prompt and sends it.
AnalysisAsked(r) ==
    /\ cl_pc[r] = "ready"
    /\ LET built == AnalysisPrompt("q", cl_existing, cl_seed[r])
       IN IF built.raised
          THEN /\ cl_out' = [cl_out EXCEPT ![r] = [raised |-> TRUE, val |-> << >>]]
               /\ cl_pc' = [cl_pc EXCEPT ![r] = "done"]
               /\ UNCHANGED cl_prompt
          ELSE /\ cl_prompt' = [cl_prompt EXCEPT ![r] = built.prompt]
               /\ cl_pc' = [cl_pc EXCEPT ![r] = "asked"]
               /\ UNCHANGED cl_out
    /\ UNCHANGED <<cl_existing, cl_reply, cl_seed, classRest>>

\* The completion service answers and the classifier returns.
AnalysisDone(r) ==
    /\ cl_pc[r] = "asked"
    /\ cl_out' = [cl_out EXCEPT ![r] =
                     [raised |-> FALSE, val |-> AnalyzeSystemComplexity(cl_reply)]]
    /\ cl_pc' = [cl_pc EXCEPT ![r] = "done"]
    /\ UNCHANGED <<cl_existing, cl_reply, cl_seed, cl_prompt, classRest>>

NextClassify ==
    \/ \E r \in Runs : AnalysisAsked(r)
    \/ \E r \in Runs : AnalysisDone(r)

SpecClassify == InitClassify /\ [][NextClassify]_vars

ClDone(r) == cl_pc[r] = "done"

\* C23: the classifier never raises; on a completion failure and on a text with no
\* JSON, invalid JSON or JSON that is not an object it returns the default
\* record; and what it returns is a record the design prompt can be built from.
C23_ClassifierDegradesToDefault ==
    \A r \in Runs : ClDone(r) =>
        /\ ~cl_out[r].raised
        /\ cl_reply \in MalformedReplies => cl_out[r].val = DefaultAnalysis
        /\ PromptBuildable(cl_out[r].val)

Range(q) == {q[i] : i \in DOMAIN q}

LoadedBy(agent, response) ==
    LET span == IF agent \in {"orchestrator", "requirements"} THEN RegexBraceSpan(response)
                ELSE ExtractJsonStr(response)
    IN IF span.ok THEN JsonLoads(span.str)
       ELSE [ok |-> FALSE, kind |-> "none", obj |-> EmptyDict]

\* The parser loaded an object and its validator ran through.
ParsedObject ==
    /\ p_agent \in Steps
    /\ LoadedBy(p_agent, p_text).ok /\ LoadedBy(p_agent, p_text).kind = "obj"
    /\ CASE p_agent = "orchestrator" -> TryParseOrchestration(p_text).ok
         [] p_agent = "requirements" -> TryParseRequirements(p_text).ok
         [] p_agent = "architecture" -> TryParseArchitecture(p_text, p_existing).ok
         [] OTHER -> TryParseShared(p_agent, p_text).ok

Reworked(agent, key, obj) ==
    \/ /\ agent = "requirements"
       /\ key \in {"functional_requirements", "non_functional_requirements"}
       /\ key \in DOMAIN obj /\ ~IsList(obj[key])
    \/ /\ agent = "architecture"
       /\ key \in {"components", "connections"}
       /\ ~Truthy(Get(obj, "components", "list0"))
    \/ /\ agent = "orchestrator"
       /\ key \in {"agents_required", "workflow_type"} /\ key \in DOMAIN obj

C29_PlanHasValidTypeAndBothAgents ==
    Completed("orchestrator") =>
        /\ slots["orchestrator_plan"]["workflow_type"] \in {"lit_str", "workflow_name"}
        /\ slots["orchestrator_plan"]["agents_required"] \in {"lit_list", "agents_both"}

\* The plan the first step stored.
PlanOf(s) == s["orchestrator_plan"]

\* C30: what execute runs does not depend on the plan: whatever plan the first step
\* stored, the agents invoked so far and the completed steps are the fixed order
\* up to the position of execute, the plan never makes the first step fail, and an
\* execution that got past the last step has invoked all eight agents in order
\* and completed all eight steps.
C30_StepsIndependentOfPlan ==
    /\ Len(calls) <= Len(StepOrder) /\ calls = Prefix(Len(calls))
    /\ Len(completed_steps) <= Len(StepOrder)
    /\ completed_steps = Prefix(Len(completed_steps))
    /\ pc.phase = "ready" => Len(calls) = pc.k - 1 /\ Len(completed_steps) = pc.k - 1
    /\ pc.phase \in {"await", "replied"} =>
           Len(calls) = pc.k /\ Len(completed_steps) = pc.k - 1
    /\ failed_step # "orchestrator"
    /\ pc.phase \in {"compile", "returned"} =>
           calls = StepOrder /\ completed_steps = StepOrder

\* All eight steps ran under a plan that names neither research nor documentation.
C30_Witness ==
    /\ pc.phase = "returned"
    /\ PlanOf(slots)["agents_required"] = "agents_named"
    /\ calls = StepOrder /\ completed_steps = StepOrder

(***************************************************************************)
(* Specification SpecResearch: ResearchAgent.process from the parsed       *)
(* research_data to its return.                                            *)
(***************************************************************************)
MaxQueries == 4
MaxResults == 3
MaxSupplied == 7

\* search_queries[:3] and results[:2]
SearchLimit == 3
KeepLimit == 2

\* The values the parsed research_data may hold under search_queries: a list of
\* queries, a string (its characters are what a slice yields), a dict, a number.
QueryList(n) == [kind |-> "list", items |-> [i \in 1..n |-> i]]
QueryChoices ==
    {QueryList(n) : n \in 0..MaxQueries}
    \cup {[kind |-> "str", items |-> [i \in 1..MaxQueries |-> i]],
          [kind |-> "map", items |-> <<1>>], [kind |-> "num", items |-> <<1>>]}

\* An external_sources value: absent, or a list of entries <<query, rank>>
\* (query 0 marks an entry the completion supplied itself).
NoSources == [present |-> FALSE, entries |-> << >>]
Sources(entries) == [present |-> TRUE, entries |-> entries]
SuppliedChoices == {NoSources, Sources([j \in 1..MaxSupplied |-> <<0, j>>])}

Sliceable(queries) == queries.kind \in {"list", "str"}

\* Stand-in for the slice that searches every query.
AllQueriesMutant(queries) == queries.items

\* for query in search_queries[:3]
ToSearch(queries) == FirstN(queries.items, SearchLimit)

\* results[:2] of a call that returned n results for `query`
Kept(query, n) == FirstN([j \in 1..n |-> <<query, j>>], KeepLimit)

\* The return of the except clause: the fallback research data, which has no
\* external_sources.
FallbackResearchResult == [success |-> FALSE, external |-> NoSources]

InitResearch ==
    /\ rs_data \in [search_queries : QueryChoices, external_sources : SuppliedChoices]
    /\ rs_pc = "parsed"
    /\ rs_searched = << >> /\ rs_results = << >> /\ rs_out = << >>
    /\ IdleOld /\ IdleGroq /\ IdleClassify

Searching ==
    /\ rs_pc \in {"parsed", "searching"}
    /\ rs_data.search_queries.items # << >>
    /\ Sliceable(rs_data.search_queries)

\* if search_queries := ...: is falsy; the parsed data is returned as it is.
NoSearch ==
    /\ rs_pc = "parsed" /\ rs_data.search_queries.items = << >>
    /\ rs_out' = [success |-> TRUE, external |-> rs_data.external_sources]
    /\ rs_pc' = "done"
    /\ UNCHANGED <<rs_data, rs_searched, rs_results, researchRest>>

\* search_queries[:3] raises TypeError on a dict or a number.
SliceRaises ==
    /\ rs_pc = "parsed" /\ rs_data.search_queries.items # << >>
    /\ ~Sliceable(rs_data.search_queries)
    /\ rs_out' = FallbackResearchResult
    /\ rs_pc' = "done"
    /\ UNCHANGED <<rs_data, rs_searched, rs_results, researchRest>>

\* results = await self.tavily_service.search(query) returns n results.
SearchReturns(n) ==
    /\ Searching
    /\ Len(rs_searched) < Len(ToSearch(rs_data.search_queries))
    /\ LET query == ToSearch(rs_data.search_queries)[Len(rs_searched) + 1]
       IN /\ rs_searched' = Append(rs_searched, query)
          /\ rs_results' = rs_results \o Kept(query, n)
    /\ rs_pc' = "searching"
    /\ UNCHANGED <<rs_data, rs_out, researchRest>>

\* The search call raises: the except clause of process returns the fallback.
SearchRaises ==
    /\ Searching
    /\ Len(rs_searched) < Len(ToSearch(rs_data.search_queries))
    /\ rs_searched' = Append(rs_searched, ToSearch(rs_data.search_queries)[Len(rs_searched) + 1])
    /\ rs_out' = FallbackResearchResult
    /\ rs_pc' = "done"
    /\ UNCHANGED <<rs_data, rs_results, researchRest>>

\* The loop is over: research_data["external_sources"] = search_results; return.
ResearchReturns ==
    /\ Searching
    /\ Len(rs_searched) = Len(ToSearch(rs_data.search_queries))
    /\ rs_out' = [success |-> TRUE, external |-> Sources(rs_results)]
    /\ rs_pc' = "done"
    /\ UNCHANGED <<rs_data, rs_searched, rs_results, researchRest>>

NextResearch ==
    \/ NoSearch
    \/ SliceRaises
    \/ \E n \in 0..MaxResults : SearchReturns(n)
    \/ SearchRaises
    \/ ResearchReturns

SpecResearch == InitResearch /\ [][NextResearch]_vars

\* The searches made so far are the first queries, one call each, in list order.
SearchedInOrder ==
    /\ Len(rs_searched) <= Len(rs_data.search_queries.items)
    /\ rs_searched = SubSeq(rs_data.search_queries.items, 1, Len(rs_searched))

\* Entries of the results list that came from `query`.
FromQuery(query) == SelectSeq(rs_results, LAMBDA e : e[1] = query)

\* C26 as stated: at most 3 search calls, one per query in list order, at most 2
\* results kept per call, external_sources never above 6 entries, and a raising
\* search call does not make the step raise.
C26_AtMostSixExternalSources ==
    /\ Len(rs_searched) <= 3 /\ SearchedInOrder
    /\ \A query \in 1..MaxQueries : Len(FromQuery(query)) <= 2
    /\ rs_pc = "done" => Len(rs_out.external.entries) <= 6

\* C26: at most 3 search calls, one per query in list order, at most 2 results
\* kept per call; the external_sources the step builds from its searches never
\* holds more than 6 entries; without search queries no search is made and what
\* the completion supplied under external_sources is returned as it is; a search
\* call that raises ends the step with its fallback research data.
C26_SearchesBounded ==
    /\ Len(rs_searched) <= 3 /\ SearchedInOrder
    /\ \A query \in 1..MaxQueries : Len(FromQuery(query)) <= 2
    /\ Len(rs_results) <= 6
    /\ rs_pc = "done" =>
        /\ rs_out.success \/ rs_out = FallbackResearchResult
        /\ (rs_out.success /\ rs_searched # << >>) => rs_out.external = Sources(rs_results)
        /\ rs_searched = << >> =>
               rs_out \in {[success |-> TRUE, external |-> rs_data.external_sources],
                           FallbackResearchResult}

C26_Witness ==
    /\ rs_pc = "done" /\ rs_out.success
    /\ Len(rs_data.search_queries.items) = 4 /\ rs_data.search_queries.kind = "list"
    /\ rs_searched = <<1, 2, 3>>
    /\ Len(rs_out.external.entries) = 6

(***************************************************************************)
(* The component list of the architecture step's output (SpecParse).       *)
(***************************************************************************)
\* C28: whatever the design text and whatever existing architecture the resolver
\* handed over, the design the architecture parser returns has a non-empty
\* component list.
C28_ComponentListNonEmpty ==
    (p_agent = "architecture" /\ ~p_out.raised) =>
        LET components == Get(p_out.val, "components", "list0")
        IN IsList(components) /\ Truthy(components)

====
